---------------------------- MODULE Spec2Model ----------------------------
(***************************************************************************)
(* Block Householder reflector engine of <T>LAPACK.                        *)
(*                                                                         *)
(* larfb (src/include/lapack/larfb.hpp) is modelled over exact Gaussian    *)
(* integers: a scalar is a pair <<re, im>>, a real scalar has im = 0.      *)
(* Matrices live in a store `mem` (carrier name -> matrix); the algorithm  *)
(* works on views (carrier, row range, column range) exactly as the code   *)
(* works on rows(V, pair{0,k}), cols(C, pair{k,n}), ...  Indices are       *)
(* 0-based and ranges half-open, as in the source.                         *)
(***************************************************************************)
EXTENDS Integers, Sequences, FiniteSets, TLC

(***************************************************************************)
(* Bounds of the model.                                                    *)
(***************************************************************************)
\* largest number of rows / columns of C
MaxDim == 3
\* largest number of reflectors k (order of T)
MaxK == 2
\* number of data patterns per kind of input
NumSeeds == 2

\* idx_t is an unsigned type: differences wrap modulo IdxMod.  The modulus
\* stands for 2^64; every extent of the model is far below it.
IdxMod == 2^16

USub(a, b) == (a - b) % IdxMod
UAdd(a, b) == (a + b) % IdxMod

Min(a, b) == IF a <= b THEN a ELSE b
Max(a, b) == IF a >= b THEN a ELSE b

(***************************************************************************)
(* Scalars: Gaussian integers.                                             *)
(***************************************************************************)
Zero == <<0, 0>>
One == <<1, 0>>
CAdd(x, y) == <<x[1] + y[1], x[2] + y[2]>>
CSub(x, y) == <<x[1] - y[1], x[2] - y[2]>>
CMul(x, y) == <<x[1] * y[1] - x[2] * y[2], x[1] * y[2] + x[2] * y[1]>>
CNeg(x) == <<0 - x[1], 0 - x[2]>>
Conj(x) == <<x[1], 0 - x[2]>>
\* the scalars one and -one of the code, and beta = one
Alpha(sign) == <<sign, 0>>

(***************************************************************************)
(* Dense matrix values: [r |-> rows, c |-> cols, e |-> elements].          *)
(***************************************************************************)
Idx(r, c) == (0 .. r - 1) \X (0 .. c - 1)

Mat(r, c, F(_, _)) == [r |-> r, c |-> c, e |-> [p \in Idx(r, c) |-> F(p[1], p[2])]]

At(A, i, j) == A.e[<<i, j>>]

ZeroMat(r, c) == Mat(r, c, LAMBDA i, j : Zero)
Eye(n) == Mat(n, n, LAMBDA i, j : IF i = j THEN One ELSE Zero)

Transp(A) == Mat(A.c, A.r, LAMBDA i, j : At(A, j, i))
ConjTransp(A) == Mat(A.c, A.r, LAMBDA i, j : Conj(At(A, j, i)))

\* op(A) of the BLAS: Op::NoTrans, Op::Trans, Op::ConjTrans
OpM(op, A) ==
    IF op = "NoTrans" THEN A
    ELSE IF op = "Trans" THEN Transp(A)
    ELSE ConjTransp(A)

RECURSIVE Dot(_, _, _, _, _)
Dot(A, i, B, j, l) ==
    IF l = 0 THEN Zero
    ELSE CAdd(Dot(A, i, B, j, l - 1), CMul(At(A, i, l - 1), At(B, l - 1, j)))

MatMul(A, B) == Mat(A.r, B.c, LAMBDA i, j : Dot(A, i, B, j, A.c))
MatAdd(A, B) == Mat(A.r, A.c, LAMBDA i, j : CAdd(At(A, i, j), At(B, i, j)))
MatSub(A, B) == Mat(A.r, A.c, LAMBDA i, j : CSub(At(A, i, j), At(B, i, j)))
MatScale(a, A) == Mat(A.r, A.c, LAMBDA i, j : CMul(a, At(A, i, j)))

\* the part of A a triangular primitive reads: the triangle uplo, with the
\* diagonal taken as one (and not read) when diag = Unit
Tri(uplo, diag, A) ==
    Mat(A.r, A.c, LAMBDA i, j :
        IF i = j THEN (IF diag = "Unit" THEN One ELSE At(A, i, j))
        ELSE IF (uplo = "Upper" /\ i < j) \/ (uplo = "Lower" /\ i > j)
             THEN At(A, i, j)
        ELSE Zero)

(***************************************************************************)
(* Views into the store.                                                   *)
(***************************************************************************)
\* the whole matrix held by carrier b
Whole(mem, b) == [base |-> b, r0 |-> 0, r1 |-> mem[b].r, c0 |-> 0, c1 |-> mem[b].c,
                  ok |-> TRUE]

nrows(v) == USub(v.r1, v.r0)
ncols(v) == USub(v.c1, v.c0)

\* slice(A, pair{a,b}, pair{c,d}): valid when the ranges lie inside A
slice(v, a, b, c, d) ==
    [base |-> v.base, r0 |-> v.r0 + a, r1 |-> v.r0 + b,
     c0 |-> v.c0 + c, c1 |-> v.c0 + d,
     ok |-> v.ok /\ a <= b /\ b <= nrows(v) /\ c <= d /\ d <= ncols(v)]

rows(v, a, b) == slice(v, a, b, 0, ncols(v))
cols(v, a, b) == slice(v, 0, nrows(v), a, b)

\* the matrix value seen through a valid view
Get(mem, v) == Mat(nrows(v), ncols(v), LAMBDA i, j : At(mem[v.base], v.r0 + i, v.c0 + j))

\* the store after writing the matrix value X through the view v (top-left
\* aligned; X is no larger than the view)
Put(mem, v, X) ==
    [mem EXCEPT ![v.base].e =
        [p \in DOMAIN @ |->
            IF /\ v.r0 <= p[1] /\ p[1] < v.r0 + X.r
               /\ v.c0 <= p[2] /\ p[2] < v.c0 + X.c
            THEN At(X, p[1] - v.r0, p[2] - v.c0)
            ELSE @[p]]]

(***************************************************************************)
(* The primitives larfb calls (lacpy, trmm, gemm), by their contracts.     *)
(* A run state st is [mem, ops, ub]: the store, the trace of primitive     *)
(* calls made so far, and whether some call was made outside its contract  *)
(* (a view out of range, operands that do not conform): its effect is then *)
(* undefined.                                                              *)
(***************************************************************************)
Step(st, okay, op, v, X) ==
    [mem |-> IF okay THEN Put(st.mem, v, X) ELSE st.mem,
     ops |-> Append(st.ops, op),
     ub |-> st.ub \/ ~okay]

\* lacpy(dense, A, B): B(i,j) := A(i,j) over the extent of A
lacpy(st, A, B) ==
    LET okay == A.ok /\ B.ok /\ nrows(A) <= nrows(B) /\ ncols(A) <= ncols(B)
    IN  Step(st, okay, <<"lacpy", A, B>>, B, Get(st.mem, A))

\* trmm(side, uplo, trans, diag, alpha, A, B):
\*   B := alpha op(A) B (Left) or B := alpha B op(A) (Right), A triangular
trmm(st, sd, uplo, op, diag, alpha, A, B) ==
    LET okay == /\ A.ok /\ B.ok /\ sd \in {"Left", "Right"}
                /\ nrows(A) = ncols(A)
                /\ nrows(A) = (IF sd = "Left" THEN nrows(B) ELSE ncols(B))
        TA == OpM(op, Tri(uplo, diag, Get(st.mem, A)))
        Bv == Get(st.mem, B)
        X == MatScale(Alpha(alpha),
                      IF sd = "Left" THEN MatMul(TA, Bv) ELSE MatMul(Bv, TA))
    IN  Step(st, okay, <<"trmm", sd, uplo, op, diag, alpha, A, B>>, B, X)

\* gemm(transA, transB, alpha, A, B, beta, C): C := alpha op(A) op(B) + beta C
gemm(st, opA, opB, alpha, A, B, beta, Cv) ==
    LET ar == IF opA = "NoTrans" THEN nrows(A) ELSE ncols(A)
        ac == IF opA = "NoTrans" THEN ncols(A) ELSE nrows(A)
        br == IF opB = "NoTrans" THEN nrows(B) ELSE ncols(B)
        bc == IF opB = "NoTrans" THEN ncols(B) ELSE nrows(B)
        okay == /\ A.ok /\ B.ok /\ Cv.ok
                /\ ac = br /\ ar = nrows(Cv) /\ bc = ncols(Cv)
        X == MatAdd(MatScale(Alpha(alpha),
                             MatMul(OpM(opA, Get(st.mem, A)), OpM(opB, Get(st.mem, B)))),
                    MatScale(Alpha(beta), Get(st.mem, Cv)))
    IN  Step(st, okay, <<"gemm", opA, opB, alpha, A, B, beta, Cv>>, Cv, X)

\* for j < nc, for i < nr: Cb(i,j) += W(i,j)
AddW(st, Cb, W, nr, nc) ==
    LET okay == /\ Cb.ok /\ W.ok
                /\ nr <= nrows(Cb) /\ nc <= ncols(Cb)
                /\ nr <= nrows(W) /\ nc <= ncols(W)
        X == MatAdd(Get(st.mem, slice(Cb, 0, nr, 0, nc)),
                    Get(st.mem, slice(W, 0, nr, 0, nc)))
    IN  Step(st, okay, <<"add", Cb, W, nr, nc>>, Cb, X)

(***************************************************************************)
(* larfb: the eight branches (storeMode x direction x side).  Each takes   *)
(* the views V, T, C, W and gives the calls the branch makes, in the order *)
(* of the code; a call the code guards by a condition that fails is        *)
(* <<"skip">>.  Run makes the calls one after the other on a run state.    *)
(***************************************************************************)
Exec(st, o) ==
    CASE o[1] = "lacpy" -> lacpy(st, o[2], o[3])
      [] o[1] = "trmm" -> trmm(st, o[2], o[3], o[4], o[5], o[6], o[7], o[8])
      [] o[1] = "gemm" -> gemm(st, o[2], o[3], o[4], o[5], o[6], o[7], o[8])
      [] o[1] = "add" -> AddW(st, o[2], o[3], o[4], o[5])
      [] OTHER -> st

RECURSIVE Run(_, _)
Run(st, calls) ==
    IF calls = <<>> THEN st ELSE Run(Exec(st, Head(calls)), Tail(calls))

\* faulty variant of the branch below: the first triangular multiply takes
\* V1 instead of V1^H
larfbColFwdLeftNoConj(side, trans, V, T, C, W, m, n, k) ==
    LET V1 == rows(V, 0, k)
        V2 == rows(V, k, m)
        C1 == rows(C, 0, k)
        C2 == rows(C, k, m)
    IN  << <<"lacpy", C1, W>>,
           <<"trmm", side, "Lower", "NoTrans", "Unit", 1, V1, W>>,
           IF m > k THEN <<"gemm", "ConjTrans", "NoTrans", 1, V2, C2, 1, W>> ELSE <<"skip">>,
           <<"trmm", side, "Upper", trans, "NonUnit", 1, T, W>>,
           IF m > k THEN <<"gemm", "NoTrans", "NoTrans", -1, V2, W, 1, C2>> ELSE <<"skip">>,
           <<"trmm", side, "Lower", "NoTrans", "Unit", -1, V1, W>>,
           <<"add", C1, W, k, n>> >>

\* Columnwise, Forward, Left: W is k-by-n, V is m-by-k
larfbColFwdLeft(side, trans, V, T, C, W, m, n, k) ==
    LET V1 == rows(V, 0, k)
        V2 == rows(V, k, m)
        C1 == rows(C, 0, k)
        C2 == rows(C, k, m)
    IN  << <<"lacpy", C1, W>>,
           <<"trmm", side, "Lower", "ConjTrans", "Unit", 1, V1, W>>,
           IF m > k THEN <<"gemm", "ConjTrans", "NoTrans", 1, V2, C2, 1, W>> ELSE <<"skip">>,
           <<"trmm", side, "Upper", trans, "NonUnit", 1, T, W>>,
           IF m > k THEN <<"gemm", "NoTrans", "NoTrans", -1, V2, W, 1, C2>> ELSE <<"skip">>,
           <<"trmm", side, "Lower", "NoTrans", "Unit", -1, V1, W>>,
           <<"add", C1, W, k, n>> >>

\* faulty variant of the branch below: the multiply by T ignores trans
larfbColFwdRightAnyTrans(side, trans, V, T, C, W, m, n, k) ==
    LET V1 == rows(V, 0, k)
        V2 == rows(V, k, n)
        C1 == cols(C, 0, k)
        C2 == cols(C, k, n)
    IN  << <<"lacpy", C1, W>>,
           <<"trmm", side, "Lower", "NoTrans", "Unit", 1, V1, W>>,
           IF n > k THEN <<"gemm", "NoTrans", "NoTrans", 1, C2, V2, 1, W>> ELSE <<"skip">>,
           <<"trmm", "Right", "Upper", "NoTrans", "NonUnit", 1, T, W>>,
           IF n > k THEN <<"gemm", "NoTrans", "ConjTrans", -1, W, V2, 1, C2>> ELSE <<"skip">>,
           <<"trmm", side, "Lower", "ConjTrans", "Unit", -1, V1, W>>,
           <<"add", C1, W, m, k>> >>

\* Columnwise, Forward, Right: W is m-by-k, V is n-by-k
larfbColFwdRight(side, trans, V, T, C, W, m, n, k) ==
    LET V1 == rows(V, 0, k)
        V2 == rows(V, k, n)
        C1 == cols(C, 0, k)
        C2 == cols(C, k, n)
    IN  << <<"lacpy", C1, W>>,
           <<"trmm", side, "Lower", "NoTrans", "Unit", 1, V1, W>>,
           IF n > k THEN <<"gemm", "NoTrans", "NoTrans", 1, C2, V2, 1, W>> ELSE <<"skip">>,
           <<"trmm", "Right", "Upper", trans, "NonUnit", 1, T, W>>,
           IF n > k THEN <<"gemm", "NoTrans", "ConjTrans", -1, W, V2, 1, C2>> ELSE <<"skip">>,
           <<"trmm", side, "Lower", "ConjTrans", "Unit", -1, V1, W>>,
           <<"add", C1, W, m, k>> >>

\* faulty variant of the branch below: the multiply back into the remainder
\* of C overwrites it (beta = 0) instead of accumulating
larfbColBwdLeftOverwrite(side, trans, V, T, C, W, m, n, k) ==
    LET V1 == rows(V, 0, USub(m, k))
        V2 == rows(V, USub(m, k), m)
        C1 == rows(C, 0, USub(m, k))
        C2 == rows(C, USub(m, k), m)
    IN  << <<"lacpy", C2, W>>,
           <<"trmm", side, "Upper", "ConjTrans", "Unit", 1, V2, W>>,
           IF m > k THEN <<"gemm", "ConjTrans", "NoTrans", 1, V1, C1, 1, W>> ELSE <<"skip">>,
           <<"trmm", side, "Lower", trans, "NonUnit", 1, T, W>>,
           IF m > k THEN <<"gemm", "NoTrans", "NoTrans", -1, V1, W, 0, C1>> ELSE <<"skip">>,
           <<"trmm", side, "Upper", "NoTrans", "Unit", -1, V2, W>>,
           <<"add", C2, W, k, n>> >>

\* Columnwise, Backward, Left: W is k-by-n, V is m-by-k
larfbColBwdLeft(side, trans, V, T, C, W, m, n, k) ==
    LET V1 == rows(V, 0, USub(m, k))
        V2 == rows(V, USub(m, k), m)
        C1 == rows(C, 0, USub(m, k))
        C2 == rows(C, USub(m, k), m)
    IN  << <<"lacpy", C2, W>>,
           <<"trmm", side, "Upper", "ConjTrans", "Unit", 1, V2, W>>,
           IF m > k THEN <<"gemm", "ConjTrans", "NoTrans", 1, V1, C1, 1, W>> ELSE <<"skip">>,
           <<"trmm", side, "Lower", trans, "NonUnit", 1, T, W>>,
           IF m > k THEN <<"gemm", "NoTrans", "NoTrans", -1, V1, W, 1, C1>> ELSE <<"skip">>,
           <<"trmm", side, "Upper", "NoTrans", "Unit", -1, V2, W>>,
           <<"add", C2, W, k, n>> >>

\* faulty variant of the branch below: the multiply by T takes the upper
\* triangle of T
larfbColBwdRightUpper(side, trans, V, T, C, W, m, n, k) ==
    LET V1 == rows(V, 0, USub(n, k))
        V2 == rows(V, USub(n, k), n)
        C1 == cols(C, 0, USub(n, k))
        C2 == cols(C, USub(n, k), n)
    IN  << <<"lacpy", C2, W>>,
           <<"trmm", side, "Upper", "NoTrans", "Unit", 1, V2, W>>,
           IF n > k THEN <<"gemm", "NoTrans", "NoTrans", 1, C1, V1, 1, W>> ELSE <<"skip">>,
           <<"trmm", side, "Upper", trans, "NonUnit", 1, T, W>>,
           IF n > k THEN <<"gemm", "NoTrans", "ConjTrans", -1, W, V1, 1, C1>> ELSE <<"skip">>,
           <<"trmm", side, "Upper", "ConjTrans", "Unit", -1, V2, W>>,
           <<"add", C2, W, m, k>> >>

\* Columnwise, Backward, Right: W is m-by-k, V is n-by-k
larfbColBwdRight(side, trans, V, T, C, W, m, n, k) ==
    LET V1 == rows(V, 0, USub(n, k))
        V2 == rows(V, USub(n, k), n)
        C1 == cols(C, 0, USub(n, k))
        C2 == cols(C, USub(n, k), n)
    IN  << <<"lacpy", C2, W>>,
           <<"trmm", side, "Upper", "NoTrans", "Unit", 1, V2, W>>,
           IF n > k THEN <<"gemm", "NoTrans", "NoTrans", 1, C1, V1, 1, W>> ELSE <<"skip">>,
           <<"trmm", side, "Lower", trans, "NonUnit", 1, T, W>>,
           IF n > k THEN <<"gemm", "NoTrans", "ConjTrans", -1, W, V1, 1, C1>> ELSE <<"skip">>,
           <<"trmm", side, "Upper", "ConjTrans", "Unit", -1, V2, W>>,
           <<"add", C2, W, m, k>> >>

\* faulty variant of the branch below: the general multiply into W comes
\* before the triangular multiply by V1
larfbRowFwdLeftGemmFirst(side, trans, V, T, C, W, m, n, k) ==
    LET V1 == cols(V, 0, k)
        V2 == cols(V, k, m)
        C1 == rows(C, 0, k)
        C2 == rows(C, k, m)
    IN  << <<"lacpy", C1, W>>,
           IF m > k THEN <<"gemm", "NoTrans", "NoTrans", 1, V2, C2, 1, W>> ELSE <<"skip">>,
           <<"trmm", side, "Upper", "NoTrans", "Unit", 1, V1, W>>,
           <<"trmm", side, "Upper", trans, "NonUnit", 1, T, W>>,
           IF m > k THEN <<"gemm", "ConjTrans", "NoTrans", -1, V2, W, 1, C2>> ELSE <<"skip">>,
           <<"trmm", side, "Upper", "ConjTrans", "Unit", -1, V1, W>>,
           <<"add", C1, W, k, n>> >>

\* Rowwise, Forward, Left: W is k-by-n, V is k-by-m
larfbRowFwdLeft(side, trans, V, T, C, W, m, n, k) ==
    LET V1 == cols(V, 0, k)
        V2 == cols(V, k, m)
        C1 == rows(C, 0, k)
        C2 == rows(C, k, m)
    IN  << <<"lacpy", C1, W>>,
           <<"trmm", side, "Upper", "NoTrans", "Unit", 1, V1, W>>,
           IF m > k THEN <<"gemm", "NoTrans", "NoTrans", 1, V2, C2, 1, W>> ELSE <<"skip">>,
           <<"trmm", side, "Upper", trans, "NonUnit", 1, T, W>>,
           IF m > k THEN <<"gemm", "ConjTrans", "NoTrans", -1, V2, W, 1, C2>> ELSE <<"skip">>,
           <<"trmm", side, "Upper", "ConjTrans", "Unit", -1, V1, W>>,
           <<"add", C1, W, k, n>> >>

\* faulty variant of the branch below: the multiply by T has its operands
\* exchanged, so that it writes T
larfbRowFwdRightIntoT(side, trans, V, T, C, W, m, n, k) ==
    LET V1 == cols(V, 0, k)
        V2 == cols(V, k, n)
        C1 == cols(C, 0, k)
        C2 == cols(C, k, n)
    IN  << <<"lacpy", C1, W>>,
           <<"trmm", side, "Upper", "ConjTrans", "Unit", 1, V1, W>>,
           IF n > k THEN <<"gemm", "NoTrans", "ConjTrans", 1, C2, V2, 1, W>> ELSE <<"skip">>,
           <<"trmm", side, "Upper", trans, "NonUnit", 1, W, T>>,
           IF n > k THEN <<"gemm", "NoTrans", "NoTrans", -1, W, V2, 1, C2>> ELSE <<"skip">>,
           <<"trmm", side, "Upper", "NoTrans", "Unit", -1, V1, W>>,
           <<"add", C1, W, m, k>> >>

\* Rowwise, Forward, Right: W is m-by-k, V is k-by-n
larfbRowFwdRight(side, trans, V, T, C, W, m, n, k) ==
    LET V1 == cols(V, 0, k)
        V2 == cols(V, k, n)
        C1 == cols(C, 0, k)
        C2 == cols(C, k, n)
    IN  << <<"lacpy", C1, W>>,
           <<"trmm", side, "Upper", "ConjTrans", "Unit", 1, V1, W>>,
           IF n > k THEN <<"gemm", "NoTrans", "ConjTrans", 1, C2, V2, 1, W>> ELSE <<"skip">>,
           <<"trmm", side, "Upper", trans, "NonUnit", 1, T, W>>,
           IF n > k THEN <<"gemm", "NoTrans", "NoTrans", -1, W, V2, 1, C2>> ELSE <<"skip">>,
           <<"trmm", side, "Upper", "NoTrans", "Unit", -1, V1, W>>,
           <<"add", C1, W, m, k>> >>

\* Rowwise, Backward, Left: W is k-by-n, V is k-by-m
larfbRowBwdLeft(side, trans, V, T, C, W, m, n, k) ==
    LET V1 == cols(V, 0, USub(m, k))
        V2 == cols(V, USub(m, k), m)
        C1 == rows(C, 0, USub(m, k))
        C2 == rows(C, USub(m, k), m)
    IN  << <<"lacpy", C2, W>>,
           <<"trmm", side, "Lower", "NoTrans", "Unit", 1, V2, W>>,
           IF m > k THEN <<"gemm", "NoTrans", "NoTrans", 1, V1, C1, 1, W>> ELSE <<"skip">>,
           <<"trmm", side, "Lower", trans, "NonUnit", 1, T, W>>,
           IF m > k THEN <<"gemm", "ConjTrans", "NoTrans", -1, V1, W, 1, C1>> ELSE <<"skip">>,
           <<"trmm", side, "Lower", "ConjTrans", "Unit", -1, V2, W>>,
           <<"add", C2, W, k, n>> >>

\* Rowwise, Backward, Right: W is m-by-k, V is k-by-n
larfbRowBwdRight(side, trans, V, T, C, W, m, n, k) ==
    LET V1 == cols(V, 0, USub(n, k))
        V2 == cols(V, USub(n, k), n)
        C1 == cols(C, 0, USub(n, k))
        C2 == cols(C, USub(n, k), n)
    IN  << <<"lacpy", C2, W>>,
           <<"trmm", side, "Lower", "ConjTrans", "Unit", 1, V2, W>>,
           IF n > k THEN <<"gemm", "NoTrans", "ConjTrans", 1, C1, V1, 1, W>> ELSE <<"skip">>,
           <<"trmm", side, "Lower", trans, "NonUnit", 1, T, W>>,
           IF n > k THEN <<"gemm", "NoTrans", "NoTrans", -1, W, V1, 1, C1>> ELSE <<"skip">>,
           <<"trmm", side, "Lower", "NoTrans", "Unit", -1, V2, W>>,
           <<"add", C2, W, m, k>> >>

(***************************************************************************)
(* larfb: argument checks, quick return, dispatch.                         *)
(***************************************************************************)
\* faulty variant of the checks below: direction is checked before trans
larfbCheckDirectionFirst(side, trans, direction, storeMode, isComplex) ==
    IF side # "Left" /\ side # "Right" THEN -1
    ELSE IF direction # "Backward" /\ direction # "Forward" THEN -3
    ELSE IF trans # "NoTrans" /\ trans # "ConjTrans"
            /\ (trans # "Trans" \/ isComplex) THEN -2
    ELSE IF storeMode # "Columnwise" /\ storeMode # "Rowwise" THEN -4
    ELSE 0

\* the four lapack_error_if checks on the enumeration arguments, in the
\* order of the code; 0 when all pass, else the info of the first that fails
larfbCheck(side, trans, direction, storeMode, isComplex) ==
    IF side # "Left" /\ side # "Right" THEN -1
    ELSE IF trans # "NoTrans" /\ trans # "ConjTrans"
            /\ (trans # "Trans" \/ isComplex) THEN -2
    ELSE IF direction # "Backward" /\ direction # "Forward" THEN -3
    ELSE IF storeMode # "Columnwise" /\ storeMode # "Rowwise" THEN -4
    ELSE 0

\* faulty variant of the quick return below: only when C has no element in
\* either direction
larfbQuickBoth(m, n) == m <= 0 /\ n <= 0

\* if (m <= 0 || n <= 0) return 0;
larfbQuick(m, n) == m <= 0 \/ n <= 0

larfbBranch(side, trans, direction, storeMode, V, T, C, W, m, n, k) ==
    IF storeMode = "Columnwise" THEN
        IF direction = "Forward" THEN
            IF side = "Left" THEN larfbColFwdLeft(side, trans, V, T, C, W, m, n, k)
            ELSE larfbColFwdRight(side, trans, V, T, C, W, m, n, k)
        ELSE
            IF side = "Left" THEN larfbColBwdLeft(side, trans, V, T, C, W, m, n, k)
            ELSE larfbColBwdRight(side, trans, V, T, C, W, m, n, k)
    ELSE
        IF direction = "Forward" THEN
            IF side = "Left" THEN larfbRowFwdLeft(side, trans, V, T, C, W, m, n, k)
            ELSE larfbRowFwdRight(side, trans, V, T, C, W, m, n, k)
        ELSE
            IF side = "Left" THEN larfbRowBwdLeft(side, trans, V, T, C, W, m, n, k)
            ELSE larfbRowBwdRight(side, trans, V, T, C, W, m, n, k)

\* what a routine hands back: the run state it ended in, the info it
\* returns and whether it reported an error
Result(st, info, err) ==
    [mem |-> st.mem, ops |-> st.ops, ub |-> st.ub, info |-> info, err |-> err]

\* faulty variant of larfb below: the branch runs whatever the checks say
larfbUnchecked(mem, side, trans, direction, storeMode, isComplex, V, T, C, W) ==
    LET m == nrows(C)
        n == ncols(C)
        k == nrows(T)
        st == [mem |-> mem, ops |-> <<>>, ub |-> FALSE]
        chk == larfbCheck(side, trans, direction, storeMode, isComplex)
    IN  Result(IF larfbQuick(m, n) THEN st
               ELSE Run(st, larfbBranch(side, trans, direction, storeMode,
                                        V, T, C, W, m, n, k)),
               chk, chk # 0)

\* The matrices of the model grant every access, so the access_denied
\* checks (info -5 .. -8) never fire.  The result is the run state with the
\* returned info.
larfb(mem, side, trans, direction, storeMode, isComplex, V, T, C, W) ==
    LET m == nrows(C)
        n == ncols(C)
        k == nrows(T)
        st == [mem |-> mem, ops |-> <<>>, ub |-> FALSE]
        chk == larfbCheck(side, trans, direction, storeMode, isComplex)
    IN  Result(IF chk # 0 \/ larfbQuick(m, n) THEN st
               ELSE Run(st, larfbBranch(side, trans, direction, storeMode,
                                        V, T, C, W, m, n, k)),
               chk, chk # 0)

(***************************************************************************)
(* Reflector geometry (larfb.hpp, Further Details): reflector j has its    *)
(* implicit unit entry at position UnitPos and its stored entries at the   *)
(* Free positions; nv is the length of the reflector vectors.              *)
(***************************************************************************)
UnitPos(direction, nv, k, j) == IF direction = "Backward" THEN (nv - k) + j ELSE j

Free(direction, nv, k, i, j) ==
    IF direction = "Backward" THEN i < (nv - k) + j ELSE i > j

\* V with its implicit unit triangle, in the orientation it is stored in
\* (nv-by-k column-wise, k-by-nv row-wise); the rest of the array is unused
UnitV(direction, storeMode, Vm, nv, k) ==
    IF storeMode = "Rowwise"
    THEN Mat(k, nv, LAMBDA j, i :
             IF i = UnitPos(direction, nv, k, j) THEN One
             ELSE IF Free(direction, nv, k, i, j) THEN At(Vm, j, i) ELSE Zero)
    ELSE Mat(nv, k, LAMBDA i, j :
             IF i = UnitPos(direction, nv, k, j) THEN One
             ELSE IF Free(direction, nv, k, i, j) THEN At(Vm, i, j) ELSE Zero)

\* the reflector vectors v_0 .. v_{k-1} as the columns of an nv-by-k matrix:
\* a row of a row-wise V holds the conjugate transpose of its vector
VVec(direction, storeMode, Vm, nv, k) ==
    IF storeMode = "Rowwise"
    THEN ConjTransp(UnitV(direction, storeMode, Vm, nv, k))
    ELSE UnitV(direction, storeMode, Vm, nv, k)

Column(A, j) == Mat(A.r, 1, LAMBDA i, z : At(A, i, j))
Columns(A, a, b) == Mat(A.r, b - a, LAMBDA i, j : At(A, i, a + j))

\* H(j) = I - tau_j v_j v_j^H
Elementary(Vc, tauv, j) ==
    MatSub(Eye(Vc.r),
           MatScale(At(tauv, j, 0), MatMul(Column(Vc, j), ConjTransp(Column(Vc, j)))))

\* H(a) H(a+1) ... H(b-1)
RECURSIVE ProductUp(_, _, _, _)
ProductUp(Vc, tauv, a, b) ==
    IF a >= b THEN Eye(Vc.r)
    ELSE MatMul(Elementary(Vc, tauv, a), ProductUp(Vc, tauv, a + 1, b))

\* H(b-1) ... H(a+1) H(a)
RECURSIVE ProductDown(_, _, _, _)
ProductDown(Vc, tauv, a, b) ==
    IF a >= b THEN Eye(Vc.r)
    ELSE MatMul(ProductDown(Vc, tauv, a + 1, b), Elementary(Vc, tauv, a))

(***************************************************************************)
(* larft, the triangular-factor builder: T is valid only in the triangle   *)
(* that matches direction (upper for Forward, lower for Backward).         *)
(***************************************************************************)
\* Forward: the leading i-by-i block of T
RECURSIVE larftForward(_, _, _)
larftForward(Vc, tauv, i) ==
    IF i = 0 THEN ZeroMat(0, 0)
    ELSE LET j == i - 1
             Tp == larftForward(Vc, tauv, j)
             w == MatScale(CNeg(At(tauv, j, 0)),
                           MatMul(Tp, MatMul(ConjTransp(Columns(Vc, 0, j)), Column(Vc, j))))
         IN  Mat(i, i, LAMBDA a, b :
                 IF a < j /\ b < j THEN At(Tp, a, b)
                 ELSE IF a < j /\ b = j THEN At(w, a, 0)
                 ELSE IF a = j /\ b = j THEN At(tauv, j, 0)
                 ELSE Zero)

\* Backward: the trailing block of T for the reflectors i .. k-1
RECURSIVE larftBackward(_, _, _, _)
larftBackward(Vc, tauv, i, k) ==
    IF i >= k THEN ZeroMat(0, 0)
    ELSE LET Tp == larftBackward(Vc, tauv, i + 1, k)
             w == MatScale(CNeg(At(tauv, i, 0)),
                           MatMul(Tp, MatMul(ConjTransp(Columns(Vc, i + 1, k)), Column(Vc, i))))
         IN  Mat(k - i, k - i, LAMBDA a, b :
                 IF a = 0 /\ b = 0 THEN At(tauv, i, 0)
                 ELSE IF a > 0 /\ b = 0 THEN At(w, a - 1, 0)
                 ELSE IF a > 0 /\ b > 0 THEN At(Tp, a - 1, b - 1)
                 ELSE Zero)

larft(direction, storeMode, Vm, tauv, nv, k) ==
    LET Vc == VVec(direction, storeMode, Vm, nv, k)
    IN  IF direction = "Backward" THEN larftBackward(Vc, tauv, 0, k)
        ELSE larftForward(Vc, tauv, k)

(***************************************************************************)
(* The blocked drivers ungqr, unmlq, unmrq.  Their workspace `work` is     *)
(* held as its two disjoint regions: carrier "T", the nb-by-nb matrixT,    *)
(* and carrier "W", the part larfb uses.  The trace records the calls and  *)
(* the direct writes the driver makes.                                     *)
(***************************************************************************)
\* is_complex<T>: true only for the type std::complex<...>
is_complex(type) == type = "complex"

\* type_t<matrix_t> of a matrix of the model
type_t(isComplex) == IF isComplex THEN "complex" ELSE "real"

\* slice(tau, range{i, i + ib})
sliceTau(tauv, i, ib) == Mat(ib, 1, LAMBDA a, z : At(tauv, i + a, 0))

\* the workspace as allocated: matrixT (tr-by-tc) and the larfb part
alloc(st, tr, wr, wc) ==
    [st EXCEPT !.mem = [@ EXCEPT !.T = ZeroMat(tr, tr), !.W = ZeroMat(wr, wc)]]

\* larft(direction, storeMode, V, taui, matrixTi): writes the triangle of
\* matrixTi that matches direction and leaves the other one as it is
larftCall(st, direction, storeMode, V, taui, Tv) ==
    LET k == IF storeMode = "Rowwise" THEN nrows(V) ELSE ncols(V)
        nv == IF storeMode = "Rowwise" THEN ncols(V) ELSE nrows(V)
        okay == /\ V.ok /\ Tv.ok /\ k <= nv
                /\ nrows(Tv) = k /\ ncols(Tv) = k /\ taui.r = k
        F == larft(direction, storeMode, Get(st.mem, V), taui, nv, k)
        old == Get(st.mem, Tv)
        X == Mat(k, k, LAMBDA a, b :
                 IF (direction = "Backward" /\ a >= b) \/ (direction # "Backward" /\ a <= b)
                 THEN At(F, a, b) ELSE At(old, a, b))
    IN  Step(st, okay, <<"larft", direction, storeMode, V, Tv>>, Tv, X)

\* the run state of a driver after a routine it called handed back r
Nested(st, r, op, okay) ==
    [mem |-> r.mem, ops |-> Append(st.ops, op), ub |-> st.ub \/ r.ub \/ ~okay]

\* larfb as the drivers call it: the workspace it is given is the leading
\* k-by-n (Left) or m-by-k (Right) part of the larfb region of `work`
larfbCall(st, side, trans, direction, storeMode, isComplex, V, T, C) ==
    LET k == nrows(T)
        work == Whole(st.mem, "W")
        W == IF side = "Left" THEN slice(work, 0, k, 0, ncols(C))
             ELSE slice(work, 0, nrows(C), 0, k)
    IN  Nested(st, larfb(st.mem, side, trans, direction, storeMode, isComplex, V, T, C, W),
               <<"larfb", side, trans, direction, storeMode, V, T, C>>,
               V.ok /\ T.ok /\ C.ok)

\* ung2r(Ai, taui): Ai (m-by-n, n <= m) becomes the first n columns of
\* H(1) ... H(k), the reflectors being the first k columns of Ai
ung2rCall(st, Ai, taui) ==
    LET m == nrows(Ai)
        n == ncols(Ai)
        k == taui.r
        okay == Ai.ok /\ k <= n /\ n <= m
        Vc == VVec("Forward", "Columnwise", Get(st.mem, Ai), m, k)
        X == Columns(ProductUp(Vc, taui, 0, k), 0, n)
    IN  Step(st, okay, <<"ung2r", Ai>>, Ai, X)

\* for (j = k; j < min(m, n); ++j) { A(:, j) = 0; A(j, j) = 1; }
ungqrInit(st, m, n, k) ==
    LET hi == Min(m, n)
        v == slice(Whole(st.mem, "A"), 0, m, k, hi)
        X == Mat(m, hi - k, LAMBDA l, j : IF l = k + j THEN One ELSE Zero)
    IN  IF k < hi THEN Step(st, v.ok, <<"init", v>>, v, X) ELSE st

\* for (j = i; j < i + ib; ++j) for (l = 0; l < i; l++) A(l, j) = 0;
ungqrZero(st, i, ib) ==
    LET v == slice(Whole(st.mem, "A"), 0, i, i, i + ib)
    IN  IF i > 0 /\ ib > 0 THEN Step(st, v.ok, <<"zero", v>>, v, ZeroMat(i, ib)) ELSE st

\* faulty variant of the iteration below: the unblocked kernel runs before
\* the block reflector is formed and applied
ungqrBlockKernelFirst(st, tauv, m, n, k, nb, isComplex, i) ==
    LET ib == Min(nb, USub(k, i))
        A == Whole(st.mem, "A")
        taui == sliceTau(tauv, i, ib)
        V == slice(A, i, m, i, i + ib)
        matrixTi == slice(Whole(st.mem, "T"), 0, ib, 0, ib)
        C == slice(A, i, m, i + ib, n)
        Ai == slice(A, i, m, i, i + ib)
    IN  ungqrZero(
            IF i + ib < n
            THEN larfbCall(larftCall(ung2rCall(st, Ai, taui),
                                     "Forward", "Columnwise", V, taui, matrixTi),
                           "Left", "NoTrans", "Forward", "Columnwise", isComplex,
                           V, matrixTi, C)
            ELSE ung2rCall(st, Ai, taui),
            i, ib)

\* one iteration of the loop of ungqr
ungqrBlock(st, tauv, m, n, k, nb, isComplex, i) ==
    LET ib == Min(nb, USub(k, i))
        A == Whole(st.mem, "A")
        taui == sliceTau(tauv, i, ib)
        V == slice(A, i, m, i, i + ib)
        matrixTi == slice(Whole(st.mem, "T"), 0, ib, 0, ib)
        C == slice(A, i, m, i + ib, n)
        Ai == slice(A, i, m, i, i + ib)
    IN  ungqrZero(
            ung2rCall(
                IF i + ib < n
                THEN larfbCall(larftCall(st, "Forward", "Columnwise", V, taui, matrixTi),
                               "Left", "NoTrans", "Forward", "Columnwise", isComplex,
                               V, matrixTi, C)
                ELSE st,
                Ai, taui),
            i, ib)

\* faulty variant of the loop below: the exit test is i != 0, so the loop
\* stops before the block that starts at 0
RECURSIVE ungqrLoopStopsAtZero(_, _, _, _, _, _, _, _)
ungqrLoopStopsAtZero(st, tauv, m, n, k, nb, isComplex, i) ==
    IF i = 0 THEN st
    ELSE ungqrLoopStopsAtZero(ungqrBlock(st, tauv, m, n, k, nb, isComplex, i),
                              tauv, m, n, k, nb, isComplex, USub(i, nb))

\* for (i = ((k - 1) / nb) * nb; i != idx_t(-nb); i = i - nb)
RECURSIVE ungqrLoop(_, _, _, _, _, _, _, _)
ungqrLoop(st, tauv, m, n, k, nb, isComplex, i) ==
    IF i = USub(0, nb) THEN st
    ELSE ungqrLoop(ungqrBlock(st, tauv, m, n, k, nb, isComplex, i),
                   tauv, m, n, k, nb, isComplex, USub(i, nb))

\* tlapack_check_false(k > n)
ungqrCheck(n, k) == k > n

\* if (n <= 0) return 0;
ungqrQuick(n) == n <= 0

\* ungqr(A, tau, opts): the result is the run state with the returned info
\* and whether an argument check failed
ungqr(mem, tauv, nbOpt, isComplex) ==
    LET m == mem.A.r
        n == mem.A.c
        k == tauv.r
        nb == Min(nbOpt, k)
        st == [mem |-> mem, ops |-> <<>>, ub |-> FALSE]
        s1 == IF n > nb THEN alloc(st, nb, nb, n - nb) ELSE alloc(st, 0, 0, 0)
        s2 == ungqrInit(s1, m, n, k)
    IN  Result(IF ungqrCheck(n, k) \/ ungqrQuick(n) THEN st
               ELSE IF nb = 0
               THEN \* (k - 1) / nb divides by zero
                    [s2 EXCEPT !.ub = TRUE]
               ELSE ungqrLoop(s2, tauv, m, n, k, nb, isComplex,
                              (USub(k, 1) \div nb) * nb),
               0, ungqrCheck(n, k))

\* the three tlapack_check_false of unmlq, in the order of the code.  The
\* third applies is_complex to the matrix type of A, not to its scalar type.
unmlqCheck(side, trans, isComplex) ==
    \/ (side # "Left" /\ side # "Right")
    \/ (trans # "NoTrans" /\ trans # "Trans" /\ trans # "ConjTrans")
    \/ (trans = "Trans" /\ is_complex("matrix"))

\* if ((m == 0) || (n == 0) || (k == 0)) return 0;
unmlqQuick(m, n, k) == m = 0 \/ n = 0 \/ k = 0

\* faulty variant of the iteration below: larfb is given trans as it is
unmlqBlockSameTrans(st, side, trans, tauv, m, n, k, nA, nb, isComplex, i) ==
    LET ib == Min(nb, USub(k, i))
        V == slice(Whole(st.mem, "A"), i, i + ib, i, nA)
        taui == sliceTau(tauv, i, ib)
        matrixTi == slice(Whole(st.mem, "T"), 0, ib, 0, ib)
        C == Whole(st.mem, "C")
        Ci == IF side = "Left" THEN slice(C, i, m, 0, n) ELSE slice(C, 0, m, i, n)
    IN  larfbCall(larftCall(st, "Forward", "Rowwise", V, taui, matrixTi),
                  side, IF trans = "NoTrans" THEN "NoTrans" ELSE "ConjTrans",
                  "Forward", "Rowwise", isComplex, V, matrixTi, Ci)

\* one iteration of the loop of unmlq
unmlqBlock(st, side, trans, tauv, m, n, k, nA, nb, isComplex, i) ==
    LET ib == Min(nb, USub(k, i))
        V == slice(Whole(st.mem, "A"), i, i + ib, i, nA)
        taui == sliceTau(tauv, i, ib)
        matrixTi == slice(Whole(st.mem, "T"), 0, ib, 0, ib)
        C == Whole(st.mem, "C")
        Ci == IF side = "Left" THEN slice(C, i, m, 0, n) ELSE slice(C, 0, m, i, n)
    IN  larfbCall(larftCall(st, "Forward", "Rowwise", V, taui, matrixTi),
                  side, IF trans = "NoTrans" THEN "ConjTrans" ELSE "NoTrans",
                  "Forward", "Rowwise", isComplex, V, matrixTi, Ci)

\* for (idx_t i = i0; i != iN; i += inc)
RECURSIVE unmlqLoop(_, _, _, _, _, _, _, _, _, _, _, _, _)
unmlqLoop(st, side, trans, tauv, m, n, k, nA, nb, isComplex, i, iN, inc) ==
    IF i = iN THEN st
    ELSE unmlqLoop(unmlqBlock(st, side, trans, tauv, m, n, k, nA, nb, isComplex, i),
                   side, trans, tauv, m, n, k, nA, nb, isComplex,
                   UAdd(i, inc), iN, inc)

\* faulty variant of unmlq below: the blocks are taken in the other order
unmlqReversed(mem, side, trans, tauv, nbOpt, isComplex) ==
    LET m == mem.C.r
        n == mem.C.c
        k == tauv.r
        nA == IF side = "Left" THEN m ELSE n
        nb == Min(nbOpt, k)
        st == [mem |-> mem, ops |-> <<>>, ub |-> FALSE]
        s1 == IF side = "Left" THEN alloc(st, nb, nb, n) ELSE alloc(st, nb, m, nb)
        positiveInc == ~(\/ (side = "Left" /\ trans = "NoTrans")
                         \/ (~(side = "Left") /\ ~(trans = "NoTrans")))
        i0 == IF positiveInc THEN 0 ELSE (USub(k, 1) \div nb) * nb
        iN == IF positiveInc THEN ((USub(k, 1) \div nb) + 1) * nb ELSE USub(0, nb)
        inc == IF positiveInc THEN nb ELSE USub(0, nb)
    IN  Result(IF unmlqCheck(side, trans, isComplex) \/ unmlqQuick(m, n, k) THEN st
               ELSE unmlqLoop(s1, side, trans, tauv, m, n, k, nA, nb, isComplex,
                              i0, iN, inc),
               0, unmlqCheck(side, trans, isComplex))

unmlq(mem, side, trans, tauv, nbOpt, isComplex) ==
    LET m == mem.C.r
        n == mem.C.c
        k == tauv.r
        nA == IF side = "Left" THEN m ELSE n
        nb == Min(nbOpt, k)
        st == [mem |-> mem, ops |-> <<>>, ub |-> FALSE]
        s1 == IF side = "Left" THEN alloc(st, nb, nb, n) ELSE alloc(st, nb, m, nb)
        positiveInc == \/ (side = "Left" /\ trans = "NoTrans")
                       \/ (~(side = "Left") /\ ~(trans = "NoTrans"))
        i0 == IF positiveInc THEN 0 ELSE (USub(k, 1) \div nb) * nb
        iN == IF positiveInc THEN ((USub(k, 1) \div nb) + 1) * nb ELSE USub(0, nb)
        inc == IF positiveInc THEN nb ELSE USub(0, nb)
    IN  Result(IF unmlqCheck(side, trans, isComplex) \/ unmlqQuick(m, n, k) THEN st
               ELSE unmlqLoop(s1, side, trans, tauv, m, n, k, nA, nb, isComplex,
                              i0, iN, inc),
               0, unmlqCheck(side, trans, isComplex))

\* the three tlapack_check_false of unmrq, in the order of the code
unmrqCheck(side, trans, isComplex) ==
    \/ (side # "Left" /\ side # "Right")
    \/ (trans # "NoTrans" /\ trans # "Trans" /\ trans # "ConjTrans")
    \/ (trans = "Trans" /\ is_complex(type_t(isComplex)))

\* if ((m == 0) || (n == 0) || (k == 0)) return 0;
unmrqQuick(m, n, k) == m = 0 \/ n = 0 \/ k = 0

\* one iteration of the loop of unmrq
unmrqBlock(st, side, trans, tauv, m, n, k, nA, nb, isComplex, i) ==
    LET ib == Min(nb, USub(k, i))
        V == slice(Whole(st.mem, "A"), i, i + ib, 0, UAdd(USub(nA, k), i + ib))
        taui == sliceTau(tauv, i, ib)
        matrixTi == slice(Whole(st.mem, "T"), 0, ib, 0, ib)
        C == Whole(st.mem, "C")
        Ci == IF side = "Left" THEN slice(C, 0, UAdd(USub(m, k), i + ib), 0, n)
              ELSE slice(C, 0, m, 0, UAdd(USub(n, k), i + ib))
    IN  larfbCall(larftCall(st, "Backward", "Rowwise", V, taui, matrixTi),
                  side, IF trans = "NoTrans" THEN "ConjTrans" ELSE "NoTrans",
                  "Backward", "Rowwise", isComplex, V, matrixTi, Ci)

\* for (idx_t i = i0; i != iN; i += inc)
RECURSIVE unmrqLoop(_, _, _, _, _, _, _, _, _, _, _, _, _)
unmrqLoop(st, side, trans, tauv, m, n, k, nA, nb, isComplex, i, iN, inc) ==
    IF i = iN THEN st
    ELSE unmrqLoop(unmrqBlock(st, side, trans, tauv, m, n, k, nA, nb, isComplex, i),
                   side, trans, tauv, m, n, k, nA, nb, isComplex,
                   UAdd(i, inc), iN, inc)

\* faulty variant of unmrq below: the blocks are taken in the order of unmlq
unmrqAsUnmlq(mem, side, trans, tauv, nbOpt, isComplex) ==
    LET m == mem.C.r
        n == mem.C.c
        k == tauv.r
        nA == IF side = "Left" THEN m ELSE n
        nb == Min(nbOpt, k)
        st == [mem |-> mem, ops |-> <<>>, ub |-> FALSE]
        s1 == IF side = "Left" THEN alloc(st, nb, nb, n) ELSE alloc(st, nb, m, nb)
        positiveInc == \/ (side = "Left" /\ trans = "NoTrans")
                       \/ (~(side = "Left") /\ ~(trans = "NoTrans"))
        i0 == IF positiveInc THEN 0 ELSE (USub(k, 1) \div nb) * nb
        iN == IF positiveInc THEN ((USub(k, 1) \div nb) + 1) * nb ELSE USub(0, nb)
        inc == IF positiveInc THEN nb ELSE USub(0, nb)
    IN  Result(IF unmrqCheck(side, trans, isComplex) \/ unmrqQuick(m, n, k) THEN st
               ELSE unmrqLoop(s1, side, trans, tauv, m, n, k, nA, nb, isComplex,
                              i0, iN, inc),
               0, unmrqCheck(side, trans, isComplex))

unmrq(mem, side, trans, tauv, nbOpt, isComplex) ==
    LET m == mem.C.r
        n == mem.C.c
        k == tauv.r
        nA == IF side = "Left" THEN m ELSE n
        nb == Min(nbOpt, k)
        st == [mem |-> mem, ops |-> <<>>, ub |-> FALSE]
        s1 == IF side = "Left" THEN alloc(st, nb, nb, n) ELSE alloc(st, nb, m, nb)
        positiveInc == \/ (side = "Left" /\ ~(trans = "NoTrans"))
                       \/ (~(side = "Left") /\ trans = "NoTrans")
        i0 == IF positiveInc THEN 0 ELSE (USub(k, 1) \div nb) * nb
        iN == IF positiveInc THEN ((USub(k, 1) \div nb) + 1) * nb ELSE USub(0, nb)
        inc == IF positiveInc THEN nb ELSE USub(0, nb)
    IN  Result(IF unmrqCheck(side, trans, isComplex) \/ unmrqQuick(m, n, k) THEN st
               ELSE unmrqLoop(s1, side, trans, tauv, m, n, k, nA, nb, isComplex,
                              i0, iN, inc),
               0, unmrqCheck(side, trans, isComplex))

(***************************************************************************)
(* The workspace queries.  A WorkInfo is the shape [m, n] of the scratch   *)
(* matrix a routine asks for; the queries look at the extents of their     *)
(* arguments only.  All matrices of a call have one scalar type, so        *)
(* is_same_v<T, type_t<matrixT_t>> holds.                                  *)
(***************************************************************************)
\* WorkInfo(m, n)
WorkInfo(m, n) == [m |-> m, n |-> n]

\* WorkInfo(s), and the default WorkInfo with s = 0: a vector of s elements
WorkVector(s) == WorkInfo(s, 1)

\* workinfo += other: both are needed at the same time
WorkSum(a, b) == WorkInfo(a.m + b.m, a.n + b.n)

\* workinfo.minMax(other): the same scratch matrix serves one after the other
minMax(a, b) == WorkInfo(Max(a.m, b.m), Max(a.n, b.n))

\* larfb_worksize(side, ..., V, matrixT, C) with k reflectors and C m-by-n:
\* W is k-by-n for side = Left and m-by-k for side = Right
larfb_worksize(side, k, m, n) ==
    IF side = "Left" THEN WorkInfo(k, n) ELSE WorkInfo(m, k)

\* ung2r_worksize(Ai, taui) with Ai m-by-n: the vector larf needs to apply a
\* reflector to the other n - 1 columns
ung2r_worksize(m, n) == WorkVector(IF n > 1 THEN n - 1 ELSE 0)

\* faulty variant of the query below: the test nb < n is inverted
ungqr_worksizeInverted(m, n, k, nbOpt) ==
    LET nb == Min(nbOpt, k)
    IN  minMax(IF nb >= n
               THEN WorkSum(larfb_worksize("Left", nb, m, USub(n, nb)), WorkInfo(nb, nb))
               ELSE WorkVector(0),
               ung2r_worksize(m, nb))

\* ungqr_worksize(A, tau, opts) for A m-by-n, tau of length k, opts.nb = nbOpt
ungqr_worksize(m, n, k, nbOpt) ==
    LET nb == Min(nbOpt, k)
    IN  minMax(IF nb < n
               THEN WorkSum(larfb_worksize("Left", nb, m, n - nb), WorkInfo(nb, nb))
               ELSE WorkVector(0),
               ung2r_worksize(m, nb))

\* faulty variant of the query below: the block for matrixT is left out
unmrq_worksizeLarfbOnly(side, trans, m, n, k, nbOpt) ==
    LET nb == Min(nbOpt, k)
    IN  larfb_worksize(side, nb, m, n)

\* unmrq_worksize(side, trans, A, tau, C, opts) for C m-by-n, tau of length k
unmrq_worksize(side, trans, m, n, k, nbOpt) ==
    LET nb == Min(nbOpt, k)
    IN  WorkSum(WorkInfo(nb, nb), larfb_worksize(side, nb, m, n))

(***************************************************************************)
(* The tiled backend (starpu::Matrix): a tiled matrix A is                 *)
(* [m, n, mb, nb], its extents and the extents of its tiles                *)
(* (A.nblockrows(), A.nblockcols()); the last tile of a row or column of   *)
(* tiles is ragged when the tile extent does not divide the extent.  A     *)
(* slice is answered with [ok, tiles]: whether every tlapack_check passed  *)
(* and, if so, the tiles asked of get_tiles (first tile row and column,    *)
(* number of tile rows and columns).  The indices are uint32_t.            *)
(***************************************************************************)
\* slice(A, rows, cols) on a starpu::Matrix
starpuSlice(A, rws, cls) ==
    LET row0 == rws[1]
        col0 == cls[1]
        row1 == rws[2]
        col1 == cls[2]
        nr == USub(row1, row0)
        nc == USub(col1, col0)
        mb == A.mb
        nb == A.nb
        okay == /\ row0 % mb = 0
                /\ col0 % nb = 0
                /\ (nr % mb = 0) \/ (row1 = A.m /\ USub(nr, 1) % mb = 0)
                /\ (nc % nb = 0) \/ (col1 = A.n /\ USub(nc, 1) % nb = 0)
    IN  [ok |-> okay,
         tiles |-> IF okay
                   THEN <<row0 \div mb, col0 \div nb,
                          IF nr = 0 THEN 0 ELSE Max(nr \div mb, 1),
                          IF nc = 0 THEN 0 ELSE Max(nc \div nb, 1)>>
                   ELSE <<>>]

\* row(A, rowIdx)
starpuRow(A, rowIdx) == starpuSlice(A, <<rowIdx, rowIdx + 1>>, <<0, A.n>>)

\* col(A, colIdx)
starpuCol(A, colIdx) == starpuSlice(A, <<0, A.m>>, <<colIdx, colIdx + 1>>)

(***************************************************************************)
(* The scalar type traits.  A type is [cplx, prec, ref]: std::complex or   *)
(* not, the rank of its real type in the usual arithmetic conversions      *)
(* (1, 2, 3, ... for float, double, long double, ...), and whether it is   *)
(* an rvalue reference, as the type of a ?: between two xvalues of one     *)
(* type is.                                                                *)
(***************************************************************************)
\* decay_t<T>
decay_t(T) == [T EXCEPT !.ref = FALSE]

\* common_type_t<T1, T2> of two arithmetic types
common_type_t(T1, T2) == IF T1.prec >= T2.prec THEN decay_t(T1) ELSE decay_t(T2)

\* faulty variant of the traits below: std::common_type, which takes the
\* complex operand as it is
scalar_type_traitsStd(T1, T2) ==
    IF T1.cplx /\ T2.cplx
    THEN [common_type_t([T1 EXCEPT !.cplx = FALSE], [T2 EXCEPT !.cplx = FALSE])
              EXCEPT !.cplx = TRUE]
    ELSE IF T1.cplx THEN T1
    ELSE IF T2.cplx THEN T2
    ELSE decay_t(IF T1 = T2 THEN [T1 EXCEPT !.ref = TRUE] ELSE common_type_t(T1, T2))

\* scalar_type_traits<T1, T2>::type: the three specializations for
\* std::complex, then the general one (the type of ?:, decayed)
scalar_type_traits(T1, T2) ==
    IF T1.cplx /\ T2.cplx
    THEN [common_type_t([T1 EXCEPT !.cplx = FALSE], [T2 EXCEPT !.cplx = FALSE])
              EXCEPT !.cplx = TRUE]
    ELSE IF T1.cplx
    THEN [common_type_t([T1 EXCEPT !.cplx = FALSE], T2) EXCEPT !.cplx = TRUE]
    ELSE IF T2.cplx
    THEN [common_type_t(T1, [T2 EXCEPT !.cplx = FALSE]) EXCEPT !.cplx = TRUE]
    ELSE decay_t(IF T1 = T2 THEN [T1 EXCEPT !.ref = TRUE] ELSE common_type_t(T1, T2))

\* scalar_type<Types...>
RECURSIVE scalar_type(_)
scalar_type(Types) ==
    IF Len(Types) = 1 THEN decay_t(Types[1])
    ELSE IF Len(Types) = 2 THEN scalar_type_traits(Types[1], Types[2])
    ELSE scalar_type(<<scalar_type(<<Types[1], Types[2]>>)>> \o SubSeq(Types, 3, Len(Types)))

\* real_type<Types...>
RECURSIVE real_type(_)
real_type(Types) ==
    IF Len(Types) = 1
    THEN IF Types[1].cplx THEN [Types[1] EXCEPT !.cplx = FALSE] ELSE Types[1]
    ELSE scalar_type(<<real_type(<<Types[1]>>), real_type(Tail(Types))>>)

(***************************************************************************)
(* rscl: x := x / alpha without avoidable overflow or underflow.  The      *)
(* floating-point type real_t is a small one: its values are 0, the powers *)
(* of two +-2^e with |e| <= MaxExp, +-infinity and NaN, held as [s, e]     *)
(* with the sign s (0 for zero, 2 for NaN) and e = MaxExp + 1 for          *)
(* infinity.  A product or quotient beyond the range overflows to infinity *)
(* or underflows to 0; a sum is rounded to a power of two.  safe_min and   *)
(* safe_max are 2^-SafeExp and 2^SafeExp, reciprocals of each other, with  *)
(* values of the type beyond both.                                         *)
(***************************************************************************)
MaxExp == 3
SafeExp == MaxExp - 2

FZero == [s |-> 0, e |-> 0]
FNaN == [s |-> 2, e |-> 0]
FPow(sgn, ex) ==
    IF ex > MaxExp THEN [s |-> sgn, e |-> MaxExp + 1]
    ELSE IF ex < -MaxExp THEN FZero
    ELSE [s |-> sgn, e |-> ex]
FInf(sgn) == FPow(sgn, MaxExp + 1)

\* safe_min<real_t>(), safe_max<real_t>()
safe_min == FPow(1, -SafeExp)
safe_max == FPow(1, SafeExp)

\* x * y
FMul(x, y) ==
    IF x.s = 2 \/ y.s = 2 THEN FNaN
    ELSE IF (x.s = 0 /\ y.e > MaxExp) \/ (y.s = 0 /\ x.e > MaxExp) THEN FNaN
    ELSE IF x.s = 0 \/ y.s = 0 THEN FZero
    ELSE IF x.e > MaxExp \/ y.e > MaxExp THEN FInf(x.s * y.s)
    ELSE FPow(x.s * y.s, x.e + y.e)

\* x / y
FDiv(x, y) ==
    IF x.s = 2 \/ y.s = 2 THEN FNaN
    ELSE IF (x.s = 0 /\ y.s = 0) \/ (x.e > MaxExp /\ y.e > MaxExp) THEN FNaN
    ELSE IF x.s = 0 \/ y.e > MaxExp THEN FZero
    ELSE IF y.s = 0 THEN FInf(x.s)
    ELSE IF x.e > MaxExp THEN FInf(x.s * y.s)
    ELSE FPow(x.s * y.s, x.e - y.e)

\* -x
FNeg(x) == IF x.s \in {1, -1} THEN [x EXCEPT !.s = -x.s] ELSE x

\* x + y, rounded to a value of the type
FAdd(x, y) ==
    IF x.s = 2 \/ y.s = 2 THEN FNaN
    ELSE IF x.e > MaxExp /\ y.e > MaxExp THEN (IF x.s = y.s THEN x ELSE FNaN)
    ELSE IF x.e > MaxExp \/ y.s = 0 THEN x
    ELSE IF y.e > MaxExp \/ x.s = 0 THEN y
    ELSE IF x.s = y.s THEN FPow(x.s, IF x.e = y.e THEN x.e + 1 ELSE Max(x.e, y.e))
    ELSE IF x.e = y.e THEN FZero
    ELSE LET big == IF x.e > y.e THEN x ELSE y
             small == IF x.e > y.e THEN y ELSE x
         IN  FPow(big.s, IF big.e - small.e = 1 THEN big.e - 1 ELSE big.e)

\* tlapack::abs(x)
FAbs(x) == IF x.s = -1 THEN [x EXCEPT !.s = 1] ELSE x

\* x > y; false when one of them is NaN
FGreater(x, y) ==
    LET key(z) == IF z.s = 0 THEN 0 ELSE z.s * (z.e + MaxExp + 1)
    IN  x.s # 2 /\ y.s # 2 /\ key(x) > key(y)

\* a complex number is <<re, im>>: a * b and a / b by the textbook formulas
CFMul(a, b) ==
    <<FAdd(FMul(a[1], b[1]), FNeg(FMul(a[2], b[2]))),
      FAdd(FMul(a[1], b[2]), FMul(a[2], b[1]))>>

CFDiv(a, b) ==
    LET d == FAdd(FMul(b[1], b[1]), FMul(b[2], b[2]))
        c == CFMul(a, <<b[1], FNeg(b[2])>>)
    IN  <<FDiv(c[1], d), FDiv(c[2], d)>>

\* scal(alpha, x): x_i := alpha x_i.  A run state of rscl is [x, ops]: the
\* vector and the scalings made; alpha is real (a value) or complex (a pair)
scal(st, kind, alpha) ==
    [x |-> [i \in 1 .. Len(st.x) |->
               IF kind = "real"
               THEN <<FMul(alpha, st.x[i][1]), FMul(alpha, st.x[i][2])>>
               ELSE CFMul(alpha, st.x[i])],
     ops |-> Append(st.ops, <<"scal", kind, alpha>>)]

\* faulty variant of the routine below: the scaling by safeMax / alpha or
\* safeMin / alpha is made before the pre-scaling
rsclRealLate(st, alpha) ==
    LET r == FAbs(alpha)
    IN  IF FGreater(r, safe_max)
        THEN scal(scal(st, "real", FDiv(safe_max, alpha)), "real", safe_min)
        ELSE IF FGreater(safe_min, r)
        THEN scal(scal(st, "real", FDiv(safe_min, alpha)), "real", safe_max)
        ELSE scal(st, "real", FDiv(FPow(1, 0), alpha))

\* rscl(alpha, x) for a real alpha
rsclReal(st, alpha) ==
    LET r == FAbs(alpha)
    IN  IF FGreater(r, safe_max)
        THEN scal(scal(st, "real", safe_min), "real", FDiv(safe_max, alpha))
        ELSE IF FGreater(safe_min, r)
        THEN scal(scal(st, "real", safe_max), "real", FDiv(safe_min, alpha))
        ELSE scal(st, "real", FDiv(FPow(1, 0), alpha))

\* faulty variant of the routine below: the test of the real part comes
\* before the test of the imaginary part
rsclComplexRealFirst(st, alpha) ==
    LET alphaR == alpha[1]
        alphaI == alpha[2]
        absR == FAbs(alphaR)
        absI == FAbs(alphaI)
        one == <<FPow(1, 0), FZero>>
    IN  IF absR = FZero
        THEN IF FGreater(absI, safe_max)
             THEN scal(scal(st, "real", safe_min),
                       "complex", <<FZero, FDiv(FNeg(safe_max), alphaI)>>)
             ELSE IF FGreater(safe_min, absI)
             THEN scal(scal(st, "real", safe_max),
                       "complex", <<FZero, FDiv(FNeg(safe_min), alphaI)>>)
             ELSE scal(st, "complex", <<FZero, FDiv(FNeg(FPow(1, 0)), alphaI)>>)
        ELSE IF absI = FZero THEN rsclReal(st, alphaR)
        ELSE scal(st, "complex", CFDiv(one, alpha))

\* rscl(alpha, x) for a complex alpha
rsclComplex(st, alpha) ==
    LET alphaR == alpha[1]
        alphaI == alpha[2]
        absR == FAbs(alphaR)
        absI == FAbs(alphaI)
        a == FAbs(FAdd(alphaR, FMul(alphaI, FDiv(alphaI, alphaR))))
        b == FAbs(FAdd(alphaI, FMul(alphaR, FDiv(alphaR, alphaI))))
        safeMin == <<safe_min, FZero>>
        safeMax == <<safe_max, FZero>>
        one == <<FPow(1, 0), FZero>>
    IN  IF absI = FZero THEN rsclReal(st, alphaR)
        ELSE IF absR = FZero
        THEN IF FGreater(absI, safe_max)
             THEN scal(scal(st, "real", safe_min),
                       "complex", <<FZero, FDiv(FNeg(safe_max), alphaI)>>)
             ELSE IF FGreater(safe_min, absI)
             THEN scal(scal(st, "real", safe_max),
                       "complex", <<FZero, FDiv(FNeg(safe_min), alphaI)>>)
             ELSE scal(st, "complex", <<FZero, FDiv(FNeg(FPow(1, 0)), alphaI)>>)
        ELSE IF FGreater(absR, safe_max) \/ FGreater(absI, safe_max)
        THEN scal(scal(st, "real", safe_min), "complex", CFDiv(safeMax, alpha))
        ELSE IF FGreater(a, safe_max) \/ FGreater(b, safe_max)
        THEN scal(scal(st, "real", safe_min), "complex", CFDiv(safeMax, alpha))
        ELSE IF FGreater(safe_min, a) \/ FGreater(safe_min, b)
        THEN scal(scal(st, "real", safe_max), "complex", CFDiv(safeMin, alpha))
        ELSE scal(st, "complex", CFDiv(one, alpha))

(***************************************************************************)
(* geru: A := alpha x y^T + A on arrays.  An array is a function from the  *)
(* offsets 0 .. len - 1 to scalars; size_t is AddrBits wide and its        *)
(* arithmetic wraps.  A run of geru answers [A, err, ub, calls]: the array *)
(* A afterwards, whether an argument was refused, whether an offset        *)
(* outside an array was used, and the calls of geru made, outermost first. *)
(***************************************************************************)
AddrBits == 4

\* conversion to size_t, and the arithmetic of size_t
Wrap(z) == z % (2 ^ AddrBits)

\* faulty variant of the definition below: a negative stride starts at the
\* first element as a positive one does
geruStartForward(len, inc) == 0

\* size_t jy = (incy > 0 ? 0 : (-n + 1)*incy), and kx likewise
geruStart(len, inc) ==
    IF inc > 0 THEN 0 ELSE Wrap(Wrap(Wrap(-len) + 1) * Wrap(inc))

\* the offset after i times "jy += incy"
geruStep(start, inc, i) == Wrap(start + i * Wrap(inc))

\* the element of x the i-th pass of a loop reads
geruElem(x, len, inc, i) ==
    LET at == IF inc = 1 THEN i ELSE geruStep(geruStart(len, inc), inc, i)
    IN  IF at \in DOMAIN x THEN x[at] ELSE <<0, 0>>

\* the loops of the column-major case: A(i, j) += x[ix] * (alpha * y[jy]),
\* each A(i, j) once
geruLoops(m, n, alpha, x, incx, y, incy, A, lda) ==
    [A |-> [p \in DOMAIN A |->
               IF p % lda < m /\ p \div lda < n
               THEN CAdd(A[p], CMul(geruElem(x, m, incx, p % lda),
                                    CMul(alpha, geruElem(y, n, incy, p \div lda))))
               ELSE A[p]],
     err |-> FALSE,
     ub |-> \/ \E i \in 0 .. m - 1 :
                   incx # 1 /\ geruStep(geruStart(m, incx), incx, i) \notin DOMAIN x
            \/ \E j \in 0 .. n - 1 :
                   incy # 1 /\ geruStep(geruStart(n, incy), incy, j) \notin DOMAIN y
            \/ (m - 1) + (n - 1) * lda \notin DOMAIN A,
     calls |-> <<>>]

RECURSIVE geru(_, _, _, _, _, _, _, _, _, _)
geru(layout, m, n, alpha, x, incx, y, incy, A, lda) ==
    LET call == <<layout, m, n, incx, incy>>
        back == [A |-> A, err |-> FALSE, ub |-> FALSE, calls |-> <<call>>]
    IN  IF incx = 0 \/ incy = 0 \/ lda < (IF layout = "ColMajor" THEN m ELSE n)
        THEN [back EXCEPT !.err = TRUE]
        ELSE IF m = 0 \/ n = 0 \/ alpha = <<0, 0>> THEN back
        ELSE IF layout = "RowMajor"
        THEN [geru("ColMajor", n, m, alpha, y, incy, x, incx, A, lda)
                 EXCEPT !.calls = <<call>> \o @]
        ELSE [geruLoops(m, n, alpha, x, incx, y, incy, A, lda)
                 EXCEPT !.calls = <<call>>]

(***************************************************************************)
(* Input data.  Matrix contents are drawn from a few patterns per seed;    *)
(* real data has zero imaginary parts.                                     *)
(***************************************************************************)
GenScalar(s, salt, i, j, cplx) ==
    <<((s * 7 + salt * 3 + i * 3 + j + 2 * i * j) % 5) - 2,
      IF cplx THEN ((s + salt + 2 * i + j + i * j) % 3) - 1 ELSE 0>>

GenMat(r, c, s, salt, cplx) == Mat(r, c, LAMBDA i, j : GenScalar(s, salt, i, j, cplx))

Units == << <<1, 0>>, <<-1, 0>>, <<0, 1>>, <<0, -1>> >>
\* the taus for which I - tau e e^H is unitary
UnitTaus == << <<2, 0>>, <<0, 0>>, <<1, 1>>, <<1, -1>> >>

FreeCount(direction, nv, k, j) ==
    IF direction = "Backward" THEN (nv - k) + j ELSE (nv - 1) - j

\* kind "unit": reflector j has at most one stored entry that is not zero,
\* a unit, at the Pick-th free position (none when Pick = FreeCount)
Pick(direction, nv, k, s, j) == (s + j) % (FreeCount(direction, nv, k, j) + 1)
PickPos(direction, nv, k, s, j) ==
    IF direction = "Backward" THEN Pick(direction, nv, k, s, j)
    ELSE j + 1 + Pick(direction, nv, k, s, j)
HasEntry(direction, nv, k, s, j) ==
    Pick(direction, nv, k, s, j) < FreeCount(direction, nv, k, j)

\* the stored entry (i, j) of reflector vector j
ReflEntry(kind, direction, nv, k, s, cplx, i, j) ==
    IF kind = "unit"
    THEN IF HasEntry(direction, nv, k, s, j) /\ i = PickPos(direction, nv, k, s, j)
         THEN Units[((s + 2 * j) % (IF cplx THEN 4 ELSE 2)) + 1]
         ELSE Zero
    ELSE GenScalar(s, 1, i, j, cplx)

ReflTau(kind, direction, nv, k, s, cplx) ==
    Mat(k, 1, LAMBDA j, z :
        IF kind = "unit"
        THEN IF HasEntry(direction, nv, k, s, j) THEN One
             ELSE UnitTaus[((s + j) % (IF cplx THEN 4 ELSE 2)) + 1]
        ELSE GenScalar(s, 2, j, 0, cplx))

\* the array V: reflector entries at the free positions (conjugated in a
\* row of a row-wise V), arbitrary values everywhere else
ReflV(kind, direction, storeMode, nv, k, s, cplx) ==
    IF storeMode = "Rowwise"
    THEN Mat(k, nv, LAMBDA j, i :
             IF Free(direction, nv, k, i, j)
             THEN Conj(ReflEntry(kind, direction, nv, k, s, cplx, i, j))
             ELSE GenScalar(s, 3, i, j, cplx))
    ELSE Mat(nv, k, LAMBDA i, j :
             IF Free(direction, nv, k, i, j)
             THEN ReflEntry(kind, direction, nv, k, s, cplx, i, j)
             ELSE GenScalar(s, 3, i, j, cplx))

\* the array T: the triangular factor in its triangle, arbitrary values in
\* the other strict triangle
ReflT(direction, storeMode, Vm, tauv, nv, k, s, cplx) ==
    LET F == larft(direction, storeMode, Vm, tauv, nv, k)
    IN  Mat(k, k, LAMBDA a, b :
            IF (direction = "Backward" /\ a >= b) \/ (direction # "Backward" /\ a <= b)
            THEN At(F, a, b)
            ELSE GenScalar(s, 4, a, b, cplx))

Sides == {"Left", "Right", "Other"}
Transs == {"NoTrans", "Trans", "ConjTrans", "Other"}
Directions == {"Forward", "Backward", "Other"}
StoreModes == {"Columnwise", "Rowwise", "Other"}

\* the arguments of a call, before the contents of the matrices are chosen
Calls ==
    [side : Sides, trans : Transs, direction : Directions, storeMode : StoreModes,
     isComplex : BOOLEAN, m : 0 .. MaxDim, n : 0 .. MaxDim, k : 0 .. MaxK]

\* the length of the reflector vectors the documentation asks for
VLen(c) == IF c.side = "Right" THEN c.n ELSE c.m

Conforming(c) ==
    /\ larfbCheck(c.side, c.trans, c.direction, c.storeMode, c.isComplex) = 0
    /\ c.k <= VLen(c)

\* <<shape, kind, seed>>: the shape of V and W (as documented, V one
\* vector entry short or long, W one column short), the kind of data
\* ("gen": arbitrary V and T; "refl": arbitrary reflectors and their
\* triangular factor; "unit": unitary reflectors and their factor)
Variants(c) ==
    IF ~Conforming(c) THEN {<<"exact", "gen", 1>>}
    ELSE ({"exact"} \X {"gen", "refl", "unit"} \X (1 .. NumSeeds))
         \cup {<<"Vlong", "gen", 1>>}
         \cup (IF VLen(c) >= 1 THEN {<<"Vshort", "gen", 1>>} ELSE {})
         \cup (IF (IF c.side = "Right" THEN c.k ELSE c.n) >= 1
               THEN {<<"Wshort", "gen", 1>>} ELSE {})

InputTau(c, x) ==
    IF x[2] = "gen" THEN GenMat(c.k, 1, x[3], 2, c.isComplex)
    ELSE ReflTau(x[2], c.direction, VLen(c), c.k, x[3], c.isComplex)

InputMem(c, x) ==
    LET nv == VLen(c)
        vl == IF x[1] = "Vshort" THEN nv - 1 ELSE IF x[1] = "Vlong" THEN nv + 1 ELSE nv
        wr == IF c.side = "Right" THEN c.m ELSE c.k
        wc == IF c.side = "Right" THEN c.k ELSE c.n
        Vm == IF x[2] = "gen"
              THEN (IF c.storeMode = "Rowwise"
                    THEN GenMat(c.k, vl, x[3], 1, c.isComplex)
                    ELSE GenMat(vl, c.k, x[3], 1, c.isComplex))
              ELSE ReflV(x[2], c.direction, c.storeMode, nv, c.k, x[3], c.isComplex)
        Tm == IF x[2] = "gen" THEN GenMat(c.k, c.k, x[3], 4, c.isComplex)
              ELSE ReflT(c.direction, c.storeMode, Vm, InputTau(c, x), nv, c.k,
                         x[3], c.isComplex)
    IN  [V |-> Vm,
         T |-> Tm,
         C |-> GenMat(c.m, c.n, x[3], 5, c.isComplex),
         W |-> GenMat(wr, IF x[1] = "Wshort" THEN wc - 1 ELSE wc, x[3], 6, c.isComplex),
         A |-> ZeroMat(0, 0)]

\* the block sizes opts.nb of the driver calls
MaxNb == 2

Drivers == {"ungqr", "unmlq", "unmrq"}

\* the arguments of a driver call (ungqr has no side and no trans)
DriverCalls ==
    {c \in [routine : Drivers, side : Sides, trans : Transs, isComplex : BOOLEAN,
            m : 0 .. MaxDim, n : 0 .. MaxDim, k : 0 .. MaxK, nb : 1 .. MaxNb] :
        c.routine = "ungqr" => (c.side = "Left" /\ c.trans = "NoTrans")}

\* the direction and storage of the reflectors a driver works on
DriverDirection(routine) == IF routine = "unmrq" THEN "Backward" ELSE "Forward"
DriverStoreMode(routine) == IF routine = "ungqr" THEN "Columnwise" ELSE "Rowwise"

\* the length of the reflector vectors of a driver call
DriverVLen(c) == IF c.routine = "ungqr" \/ c.side = "Left" THEN c.m ELSE c.n

DriverConforming(c) ==
    /\ c.side \in {"Left", "Right"}
    /\ c.trans \in {"NoTrans", "ConjTrans"} \/ (c.trans = "Trans" /\ ~c.isComplex)
    /\ c.k <= DriverVLen(c)
    /\ c.routine = "ungqr" => c.k <= c.n

\* <<kind, seed>> of the data of a driver call
DriverVariants(c) ==
    IF DriverConforming(c) THEN {"gen", "unit"} \X (1 .. NumSeeds) ELSE {<<"gen", 1>>}

DriverTau(c, x) ==
    IF x[1] = "gen" THEN GenMat(c.k, 1, x[2], 2, c.isComplex)
    ELSE ReflTau(x[1], DriverDirection(c.routine), DriverVLen(c), c.k, x[2], c.isComplex)

\* A holds the reflectors: in its first k columns for ungqr (m-by-n), in its
\* k rows for unmlq and unmrq (k-by-nA)
DriverMem(c, x) ==
    LET nv == DriverVLen(c)
        Vm == ReflV(x[1], DriverDirection(c.routine), DriverStoreMode(c.routine),
                    nv, c.k, x[2], c.isComplex)
        Am == IF c.routine = "ungqr"
              THEN (IF x[1] = "gen" THEN GenMat(c.m, c.n, x[2], 1, c.isComplex)
                    ELSE Mat(c.m, c.n, LAMBDA i, j :
                             IF j < c.k THEN At(Vm, i, j)
                             ELSE GenScalar(x[2], 7, i, j, c.isComplex)))
              ELSE (IF x[1] = "gen" THEN GenMat(c.k, nv, x[2], 1, c.isComplex) ELSE Vm)
    IN  [V |-> ZeroMat(0, 0),
         T |-> ZeroMat(0, 0),
         C |-> IF c.routine = "ungqr" THEN ZeroMat(0, 0)
               ELSE GenMat(c.m, c.n, x[2], 5, c.isComplex),
         W |-> ZeroMat(0, 0),
         A |-> Am]

\* the extents of the tiled matrices and of their tiles
MaxTiledDim == 6
MaxTile == 3

\* a tile is no larger than the matrix it is cut from
TiledMatrices ==
    {A \in [m : 0 .. MaxTiledDim, n : 0 .. MaxTiledDim,
            mb : 1 .. MaxTile, nb : 1 .. MaxTile] :
        A.mb <= Max(A.m, 1) /\ A.nb <= Max(A.n, 1)}

\* the store of a caller that holds no dense matrix
NoMem ==
    [V |-> ZeroMat(0, 0), T |-> ZeroMat(0, 0), C |-> ZeroMat(0, 0),
     W |-> ZeroMat(0, 0), A |-> ZeroMat(0, 0)]

\* the ranks of the real types and the length of a list of types
NumPrec == 3
MaxTypes == 3

\* float, double, ... and their std::complex
ScalarTypes == [cplx : BOOLEAN, prec : 1 .. NumPrec, ref : {FALSE}]

\* Values of real_t a caller passes as alpha, and the vectors x it scales
Reals ==
    {FZero} \cup [s : {1, -1}, e : -MaxExp .. MaxExp]

RsclVectors ==
    LET one == FPow(1, 0)
    IN  {<<>>, <<<<one, FZero>>>>,
         <<<<FPow(1, 1), FPow(-1, -1)>>, <<FZero, one>>>>}

\* Arguments of geru: dimensions, strides, the leading dimension, alpha,
\* and arrays whose elements differ from offset to offset
MaxGeDim == 2
MaxStride == 2
Layouts == {"ColMajor", "RowMajor"}
Strides == -MaxStride .. MaxStride
GeAlphas == {<<0, 0>>, <<1, 0>>, <<2, -1>>}
Abs(z) == IF z < 0 THEN -z ELSE z
GeVector(len, inc, seed) ==
    [p \in 0 .. (len - 1) * Abs(inc) |-> <<p + 1, seed - p>>]
GeArray(nr, nc, seed) ==
    [p \in 0 .. nr * nc - 1 |-> <<seed + p, 2 * p - 1>>]

(***************************************************************************)
(* The state machine: a caller holds V, T, C, W and calls larfb, then may  *)
(* call it again with the inverse operation; or a caller holds A, tau (and *)
(* C) and calls one of the blocked drivers.                                *)
(***************************************************************************)
VARIABLES
    routine,     \* the routine the caller calls
    nbOpt,       \* opts.nb of a driver call
    side, trans, direction, storeMode,  \* the enumeration arguments
    isComplex,   \* whether the scalar type of V is complex
    mem,         \* the store: the matrices V, T, C, W, A
    tau,         \* the scalars of the reflectors V holds (k-by-1)
    orig,        \* the store before the first call
    entry,       \* the store on entry to the last call
    pc,          \* "ready", "called" (once), "recalled" (twice)
    status,      \* of the last call: "none", "ok", "error", "crashed"
    info,        \* the value the last call returned
    ops,         \* the primitive calls the last call made, in order
    ub,          \* the last call went outside the contract of a primitive
    arg,         \* the arguments of a call that takes no dense matrix
    res          \* what such a call answered

vars == <<routine, nbOpt, side, trans, direction, storeMode, isComplex, mem, tau, orig, entry,
          pc, status, info, ops, ub, arg, res>>

InitLarfb ==
    \E c \in Calls : \E x \in Variants(c) :
        /\ routine = "larfb"
        /\ nbOpt = 1
        /\ side = c.side
        /\ trans = c.trans
        /\ direction = c.direction
        /\ storeMode = c.storeMode
        /\ isComplex = c.isComplex
        /\ mem = InputMem(c, x)
        /\ tau = InputTau(c, x)
        /\ orig = mem
        /\ entry = mem
        /\ pc = "ready"
        /\ status = "none"
        /\ info = 0
        /\ ops = <<>>
        /\ ub = FALSE
        /\ arg = <<>>
        /\ res = <<>>

InitDriver ==
    \E c \in DriverCalls : \E x \in DriverVariants(c) :
        /\ routine = c.routine
        /\ nbOpt = c.nb
        /\ side = c.side
        /\ trans = c.trans
        /\ direction = DriverDirection(c.routine)
        /\ storeMode = DriverStoreMode(c.routine)
        /\ isComplex = c.isComplex
        /\ mem = DriverMem(c, x)
        /\ tau = DriverTau(c, x)
        /\ orig = mem
        /\ entry = mem
        /\ pc = "ready"
        /\ status = "none"
        /\ info = 0
        /\ ops = <<>>
        /\ ub = FALSE
        /\ arg = <<>>
        /\ res = <<>>

Init == InitLarfb \/ InitDriver

\* the caller's state after a call with the operation tr that ended in r
Finish(r, tr, next) ==
    /\ trans' = tr
    /\ entry' = mem
    /\ pc' = next
    /\ ops' = r.ops
    /\ ub' = r.ub
    /\ info' = r.info
    /\ IF r.ub
       THEN \* undefined behaviour: the call may return or crash, with
            \* the writes made inside the matrices done or not
            /\ status' \in {"ok", "crashed"}
            /\ mem' \in {mem, r.mem}
       ELSE /\ status' = IF r.err THEN "error" ELSE "ok"
            /\ mem' = r.mem
    /\ UNCHANGED <<routine, nbOpt, side, direction, storeMode, isComplex, tau, orig,
                   arg, res>>

\* one call of larfb on the whole matrices with the operation tr
Call(tr, next) ==
    Finish(larfb(mem, side, tr, direction, storeMode, isComplex,
                 Whole(mem, "V"), Whole(mem, "T"), Whole(mem, "C"), Whole(mem, "W")),
           tr, next)

Larfb ==
    /\ routine = "larfb"
    /\ pc = "ready"
    /\ Call(trans, "called")

InverseOp(tr) == IF tr = "NoTrans" THEN "ConjTrans" ELSE "NoTrans"

\* after a successful call, the caller applies the inverse operation
LarfbInverse ==
    /\ routine = "larfb"
    /\ pc = "called"
    /\ status = "ok"
    /\ ~ub
    /\ Call(InverseOp(trans), "recalled")

Ungqr ==
    /\ routine = "ungqr"
    /\ pc = "ready"
    /\ Finish(ungqr(mem, tau, nbOpt, isComplex), trans, "called")

Unmlq ==
    /\ routine = "unmlq"
    /\ pc = "ready"
    /\ Finish(unmlq(mem, side, trans, tau, nbOpt, isComplex), trans, "called")

Unmrq ==
    /\ routine = "unmrq"
    /\ pc = "ready"
    /\ Finish(unmrq(mem, side, trans, tau, nbOpt, isComplex), trans, "called")

Next == Larfb \/ LarfbInverse \/ Ungqr \/ Unmlq \/ Unmrq

Spec == Init /\ [][Next]_vars

(***************************************************************************)
(* A caller of the tiled backend holds a tiled matrix and asks for a       *)
(* slice, a row or a column of it.                                         *)
(***************************************************************************)
\* the caller holds no dense matrix and has made no dense call
NoDense ==
    /\ nbOpt = 1
    /\ side = "Left"
    /\ trans = "NoTrans"
    /\ direction = "Forward"
    /\ storeMode = "Columnwise"
    /\ isComplex = FALSE
    /\ mem = NoMem
    /\ tau = ZeroMat(0, 1)
    /\ orig = mem
    /\ entry = mem
    /\ info = 0
    /\ ops = <<>>
    /\ ub = FALSE

InitTiled ==
    \E r \in {"slice", "row", "col"} : \E A \in TiledMatrices :
        /\ routine = r
        /\ arg = [A |-> A]
        /\ res = <<>>
        /\ pc = "ready"
        /\ status = "none"
        /\ NoDense

\* the caller's state after the call with the arguments a was answered r
Answer(a, r) ==
    /\ arg' = a
    /\ res' = r
    /\ pc' = "called"
    /\ status' = IF r.ok THEN "ok" ELSE "error"
    /\ UNCHANGED <<routine, nbOpt, side, trans, direction, storeMode, isComplex, mem,
                   tau, orig, entry, info, ops, ub>>

\* slice(A, {row0, row1}, {col0, col1}) for a range inside A
Slice ==
    /\ routine = "slice"
    /\ pc = "ready"
    /\ \E row0, row1 \in 0 .. arg.A.m : \E col0, col1 \in 0 .. arg.A.n :
        /\ row0 <= row1
        /\ col0 <= col1
        /\ Answer([A |-> arg.A, rows |-> <<row0, row1>>, cols |-> <<col0, col1>>],
                  starpuSlice(arg.A, <<row0, row1>>, <<col0, col1>>))

\* row(A, i) for a row of A
Row ==
    /\ routine = "row"
    /\ pc = "ready"
    /\ \E i \in 0 .. arg.A.m - 1 :
        Answer([A |-> arg.A, idx |-> i], starpuRow(arg.A, i))

\* col(A, j) for a column of A
Col ==
    /\ routine = "col"
    /\ pc = "ready"
    /\ \E j \in 0 .. arg.A.n - 1 :
        Answer([A |-> arg.A, idx |-> j], starpuCol(arg.A, j))

TiledNext == Slice \/ Row \/ Col

TiledSpec == InitTiled /\ [][TiledNext]_vars

(***************************************************************************)
(* An instantiation of scalar_type<Types...> or real_type<Types...>.       *)
(***************************************************************************)
InitTraits ==
    \E r \in {"scalar_type", "real_type"} : \E len \in 1 .. MaxTypes :
        \E Types \in [1 .. len -> ScalarTypes] :
            /\ routine = r
            /\ arg = [types |-> Types]
            /\ res = <<>>
            /\ pc = "ready"
            /\ status = "none"
            /\ NoDense

\* the instantiation names the type T
Named(T) ==
    /\ res' = T
    /\ pc' = "called"
    /\ status' = "ok"
    /\ UNCHANGED <<routine, nbOpt, side, trans, direction, storeMode, isComplex, mem,
                   tau, orig, entry, info, ops, ub, arg>>

ScalarType ==
    /\ routine = "scalar_type"
    /\ pc = "ready"
    /\ Named(scalar_type(arg.types))

RealType ==
    /\ routine = "real_type"
    /\ pc = "ready"
    /\ Named(real_type(arg.types))

TraitNext == ScalarType \/ RealType

TraitSpec == InitTraits /\ [][TraitNext]_vars


(***************************************************************************)
(* A call of rscl(alpha, x) with a real or a complex alpha, or of geru.    *)
(***************************************************************************)
InitKernel ==
    /\ pc = "ready"
    /\ status = "none"
    /\ res = <<>>
    /\ NoDense
    /\ \/ \E alpha \in Reals : \E x \in RsclVectors :
            /\ routine = "rscl"
            /\ arg = [cplx |-> FALSE, alpha |-> alpha, x |-> x]
       \/ \E re, im \in Reals : \E x \in RsclVectors :
            /\ routine = "rscl"
            /\ arg = [cplx |-> TRUE, alpha |-> <<re, im>>, x |-> x]
       \/ \E layout \in Layouts : \E m, n \in 0 .. MaxGeDim :
          \E incx, incy \in Strides : \E lda \in 1 .. MaxGeDim + 1 :
          \E alpha \in GeAlphas : \E seed \in 0 .. NumSeeds - 1 :
            /\ routine = "geru"
            /\ arg = [layout |-> layout, m |-> m, n |-> n, alpha |-> alpha,
                      x |-> GeVector(m, incx, seed), incx |-> incx,
                      y |-> GeVector(n, incy, seed + 1), incy |-> incy,
                      A |-> IF layout = "ColMajor" THEN GeArray(lda, n, seed)
                            ELSE GeArray(m, lda, seed),
                      lda |-> lda]

\* the caller's state after the call answered r
Returns(r, st) ==
    /\ res' = r
    /\ pc' = "called"
    /\ status' = st
    /\ UNCHANGED <<routine, nbOpt, side, trans, direction, storeMode, isComplex, mem,
                   tau, orig, entry, info, ops, ub, arg>>

RsclReal ==
    /\ routine = "rscl"
    /\ pc = "ready"
    /\ ~arg.cplx
    /\ Returns(rsclReal([x |-> arg.x, ops |-> <<>>], arg.alpha), "ok")

RsclComplex ==
    /\ routine = "rscl"
    /\ pc = "ready"
    /\ arg.cplx
    /\ Returns(rsclComplex([x |-> arg.x, ops |-> <<>>], arg.alpha), "ok")

GeruCall(r) == Returns(r, IF r.err THEN "error" ELSE "ok")

Geru ==
    /\ routine = "geru"
    /\ pc = "ready"
    /\ GeruCall(geru(arg.layout, arg.m, arg.n, arg.alpha, arg.x, arg.incx,
                     arg.y, arg.incy, arg.A, arg.lda))

KernelNext == RsclReal \/ RsclComplex \/ Geru

KernelSpec == InitKernel /\ [][KernelNext]_vars

(***************************************************************************)
(* Reference operators, from the documentation of larfb.                   *)
(***************************************************************************)
\* of the last call: m, n, k, and the length of the reflector vectors
CallM == entry.C.r
CallN == entry.C.c
CallK == entry.T.r
CallNv == IF side = "Right" THEN CallN ELSE CallM

ValidArgs == larfbCheck(side, trans, direction, storeMode, isComplex) = 0

\* the shape relations of the documentation hold for the last call
ShapesAsDocumented ==
    /\ entry.T.c = CallK
    /\ CallK <= CallNv
    /\ entry.V.r = (IF storeMode = "Rowwise" THEN CallK ELSE CallNv)
    /\ entry.V.c = (IF storeMode = "Rowwise" THEN CallNv ELSE CallK)
    /\ entry.W.r = (IF side = "Right" THEN CallM ELSE CallK)
    /\ entry.W.c = (IF side = "Right" THEN CallK ELSE CallN)

\* the triangle of T that matches direction
TriT(Tm) == Tri(IF direction = "Backward" THEN "Lower" ELSE "Upper", "NonUnit", Tm)

\* H = I - V T V^H (column-wise) or I - V^H T V (row-wise)
BlockReflector(Vm, Tm, nv, k) ==
    LET UV == UnitV(direction, storeMode, Vm, nv, k)
    IN  IF storeMode = "Rowwise"
        THEN MatSub(Eye(nv), MatMul(ConjTransp(UV), MatMul(TriT(Tm), UV)))
        ELSE MatSub(Eye(nv), MatMul(UV, MatMul(TriT(Tm), ConjTransp(UV))))

\* Forward: H(1) ... H(k); Backward: H(k) ... H(1)
ReflectorProduct(Vm, tauv, nv, k) ==
    LET Vc == VVec(direction, storeMode, Vm, nv, k)
    IN  IF direction = "Backward" THEN ProductDown(Vc, tauv, 0, k)
        ELSE ProductUp(Vc, tauv, 0, k)

\* T holds, in its triangle, the triangular factor of the reflectors
IsFactor(Vm, Tm, tauv, nv, k) ==
    TriT(Tm) = TriT(larft(direction, storeMode, Vm, tauv, nv, k))

\* op(H) applied to C from the side of the call
Applied(H, tr, Cm) ==
    LET Hop == IF tr = "NoTrans" THEN H ELSE ConjTransp(H)
    IN  IF side = "Right" THEN MatMul(Cm, Hop) ELSE MatMul(Hop, Cm)

\* the last call was a call inside the documented contract that returned 0
Returned ==
    /\ routine = "larfb"
    /\ pc \in {"called", "recalled"}
    /\ status = "ok" /\ ValidArgs /\ ShapesAsDocumented

(***************************************************************************)
(* C1.  For every (side, direction, storage) and accepted trans, with the  *)
(* documented shapes (k <= rows(C) for Left, k <= cols(C) for Right),      *)
(* larfb overwrites C with op(H) C (Left) or C op(H) (Right), where        *)
(* H = I - V T V^H (column-wise) or I - V^H T V (row-wise), V taken with   *)
(* its implicit unit triangle; and when T is the triangular factor of the  *)
(* k reflectors, H is their product in the order fixed by direction.       *)
(***************************************************************************)
LarfbAppliesBlockReflector ==
    Returned =>
        LET H == BlockReflector(entry.V, entry.T, CallNv, CallK)
        IN  /\ mem.C = Applied(H, trans, entry.C)
            /\ IsFactor(entry.V, entry.T, tau, CallNv, CallK)
                 => H = ReflectorProduct(entry.V, tau, CallNv, CallK)

\* a call with two reflectors and a remainder, on the triangular factor of
\* reflectors that do change C
LarfbAppliesBlockReflectorWitness ==
    /\ Returned
    /\ pc = "called"
    /\ CallK = MaxK
    /\ CallNv > CallK
    /\ CallM >= 1 /\ CallN >= 1
    /\ IsFactor(entry.V, entry.T, tau, CallNv, CallK)
    /\ At(entry.T, IF direction = "Backward" THEN 1 ELSE 0,
                   IF direction = "Backward" THEN 0 ELSE 1) # Zero
    /\ mem.C # entry.C

\* H^H H = I
IsUnitary(H) == MatMul(ConjTransp(H), H) = Eye(H.r)

\* the two calls made were trans = NoTrans and then trans = ConjTrans, both
\* inside the documented contract and both returning 0
AppliedThenInverted ==
    /\ Returned
    /\ pc = "recalled"
    /\ trans = "ConjTrans"

(***************************************************************************)
(* C2.  For the same V, T, side, direction and storage, with the block     *)
(* reflector H given by V and T unitary, larfb with trans = NoTrans        *)
(* followed at once by larfb with trans = ConjTrans restores C to the      *)
(* value it had before the first call.                                     *)
(***************************************************************************)
LarfbInverseRestores ==
    (AppliedThenInverted /\ IsUnitary(BlockReflector(orig.V, orig.T, CallNv, CallK)))
        => mem.C = orig.C

\* two reflectors with a remainder, the first call having changed C
LarfbInverseRestoresWitness ==
    /\ AppliedThenInverted
    /\ IsUnitary(BlockReflector(orig.V, orig.T, CallNv, CallK))
    /\ CallK = MaxK
    /\ CallNv > CallK
    /\ entry.C # orig.C
    /\ mem.C = orig.C

Called == routine = "larfb" /\ pc \in {"called", "recalled"}

\* trans is an operation larfb accepts for the scalar type of V
TransAccepted == trans \in {"NoTrans", "ConjTrans"} \/ (trans = "Trans" /\ ~isComplex)

Rejected(code) == status = "error" /\ info = code /\ ops = <<>> /\ mem = entry

(***************************************************************************)
(* C3.  larfb signals an argument error instead of computing when side is  *)
(* neither Left nor Right (-1), when trans is neither NoTrans nor          *)
(* ConjTrans, Trans being accepted only for a real V (-2), when direction  *)
(* is neither Forward nor Backward (-3), when storage is neither           *)
(* Columnwise nor Rowwise (-4); the first offending parameter in that      *)
(* order is the one reported, whatever the shape of C, and a call whose    *)
(* four arguments are all accepted is not rejected.                        *)
(***************************************************************************)
LarfbRejectsBadArguments ==
    Called =>
        IF side \notin {"Left", "Right"} THEN Rejected(-1)
        ELSE IF ~TransAccepted THEN Rejected(-2)
        ELSE IF direction \notin {"Forward", "Backward"} THEN Rejected(-3)
        ELSE IF storeMode \notin {"Columnwise", "Rowwise"} THEN Rejected(-4)
        ELSE status # "error" /\ info = 0

\* Trans with a complex V is reported before a bad storage, on a C without rows
LarfbRejectsBadArgumentsWitness ==
    /\ Called
    /\ side = "Right" /\ trans = "Trans" /\ isComplex
    /\ direction = "Forward" /\ storeMode = "Other"
    /\ CallM = 0 /\ CallN = MaxDim
    /\ Rejected(-2)

\* the shape relations between C, T and V (not the workspace)
ShapeRelations ==
    /\ entry.T.c = CallK
    /\ CallK <= CallNv
    /\ entry.V.r = (IF storeMode = "Rowwise" THEN CallK ELSE CallNv)
    /\ entry.V.c = (IF storeMode = "Rowwise" THEN CallNv ELSE CallK)

\* the workspace is at least k-by-n (Left) or m-by-k (Right)
WorkspaceSuffices ==
    /\ entry.W.r >= (IF side = "Right" THEN CallM ELSE CallK)
    /\ entry.W.c >= (IF side = "Right" THEN CallK ELSE CallN)

(***************************************************************************)
(* C4.  larfb signals an error, and does not start the computation, when   *)
(* the shape relations are violated: side = Left with k > rows(C),         *)
(* side = Right with k > cols(C), or a V whose extents do not match.       *)
(* Stated for the calls that have work to do (m, n, k >= 1): an empty C is *)
(* a no-op.                                                                *)
(***************************************************************************)
LarfbRejectsBadShapes ==
    (Called /\ ValidArgs /\ CallM >= 1 /\ CallN >= 1 /\ CallK >= 1 /\ ~ShapeRelations)
        => (status = "error" /\ ops = <<>>)

(***************************************************************************)
(* C5.  A call whose workspace W is smaller than k-by-n (Left) or m-by-k   *)
(* (Right) is rejected with an error; the engine never writes outside W.   *)
(* Stated for the calls that need a workspace element (m, n, k >= 1).      *)
(***************************************************************************)
LarfbRejectsShortWorkspace ==
    (Called /\ ValidArgs /\ CallM >= 1 /\ CallN >= 1 /\ CallK >= 1
        /\ ShapeRelations /\ ~WorkspaceSuffices)
        => (status = "error" /\ ~ub)

\* some routine was called and reported a violated precondition
PreconditionReported == pc \in {"called", "recalled"} /\ status = "error"

\* the output matrix of the routine: A for ungqr, C for the others
Output(m) == IF routine = "ungqr" THEN m.A ELSE m.C

(***************************************************************************)
(* C6.  Whenever larfb, ungqr, unmlq or unmrq reports a violated           *)
(* precondition, its output matrix (C, or A for ungqr) holds the value it  *)
(* had on entry, and the routine has made no primitive call and no write:  *)
(* every check comes before the first write.                               *)
(***************************************************************************)
RejectionLeavesOutput ==
    PreconditionReported => (Output(mem) = Output(entry) /\ ops = <<>>)

\* larfb rejects Trans for a complex V, on a call whose shapes would have
\* let the branch run on a non-empty C
RejectionLeavesOutputWitness ==
    /\ PreconditionReported
    /\ routine = "larfb"
    /\ info = -2 /\ trans = "Trans" /\ isComplex
    /\ direction \in {"Forward", "Backward"} /\ storeMode \in {"Columnwise", "Rowwise"}
    /\ ShapesAsDocumented
    /\ CallM >= 1 /\ CallN >= 1 /\ CallK >= 1
    /\ Output(mem) = Output(entry)

(***************************************************************************)
(* C7.  With valid enumeration arguments, larfb called with rows(C) = 0 or *)
(* cols(C) = 0 returns 0 without calling any primitive and without         *)
(* changing C, W, V or T.                                                  *)
(***************************************************************************)
LarfbQuickReturn ==
    (Called /\ ValidArgs /\ (CallM = 0 \/ CallN = 0))
        => (status = "ok" /\ info = 0 /\ ops = <<>> /\ ~ub /\ mem = entry)

\* no rows in C, but reflectors and columns
LarfbQuickReturnWitness ==
    /\ Called /\ ValidArgs
    /\ side = "Right"
    /\ CallM = 0 /\ CallN = MaxDim /\ CallK = MaxK
    /\ status = "ok" /\ ops = <<>>

(***************************************************************************)
(* C8.  larfb with k = 0 (T is 0-by-0), rows(C) >= 1 and cols(C) >= 1 is   *)
(* the identity: for every side, trans, direction and storage it returns   *)
(* 0 and every element of C has its value on entry.                        *)
(***************************************************************************)
LarfbZeroReflectorsIsIdentity ==
    (Called /\ ValidArgs /\ ShapesAsDocumented
        /\ CallK = 0 /\ CallM >= 1 /\ CallN >= 1)
        => (status = "ok" /\ info = 0 /\ mem.C = entry.C)

\* the branch ran: the primitives were called, on a full-size C
LarfbZeroReflectorsIsIdentityWitness ==
    /\ Called /\ ValidArgs /\ ShapesAsDocumented
    /\ CallK = 0 /\ CallM = MaxDim /\ CallN = MaxDim
    /\ status = "ok" /\ Len(ops) >= 6
    /\ mem.C = entry.C

\* the views a primitive call reads (the view it writes is among them)
OpViews(o) ==
    IF o[1] = "lacpy" THEN {o[2], o[3]}
    ELSE IF o[1] = "trmm" THEN {o[7], o[8]}
    ELSE IF o[1] = "gemm" THEN {o[5], o[6], o[8]}
    ELSE {o[2], o[3]}

\* the view a primitive call writes
OpWrites(o) ==
    IF o[1] = "lacpy" THEN o[3]
    ELSE IF o[1] = "trmm" THEN o[8]
    ELSE IF o[1] = "gemm" THEN o[8]
    ELSE o[2]

\* the call repeated from the same entry state with the strict triangle of
\* T that does not match direction set to zero
WithTriangleOnly ==
    LET e == [entry EXCEPT !.T = TriT(entry.T)]
    IN  larfb(e, side, trans, direction, storeMode, isComplex,
              Whole(e, "V"), Whole(e, "T"), Whole(e, "C"), Whole(e, "W"))

(***************************************************************************)
(* C9.  larfb reads T only through triangular multiplies on the triangle   *)
(* that matches direction (upper for Forward, lower for Backward), in all  *)
(* branches; no element of the other strict triangle of T influences the   *)
(* result.                                                                 *)
(***************************************************************************)
LarfbReadsTriangleOfT ==
    Returned =>
        /\ \A i \in 1 .. Len(ops) :
              (\E v \in OpViews(ops[i]) : v.base = "T") =>
                  /\ ops[i][1] = "trmm"
                  /\ ops[i][7].base = "T"
                  /\ ops[i][8].base # "T"
                  /\ ops[i][3] = (IF direction = "Backward" THEN "Lower" ELSE "Upper")
        /\ mem.C = WithTriangleOnly.mem.C

\* T has something in the other strict triangle, and the call changed C
LarfbReadsTriangleOfTWitness ==
    /\ Returned
    /\ CallK = MaxK /\ CallNv > CallK
    /\ entry.T # TriT(entry.T)
    /\ \E i \in 1 .. Len(ops) : ops[i][1] = "trmm" /\ ops[i][7].base = "T"
    /\ mem.C # entry.C

(***************************************************************************)
(* C10.  larfb never writes to V or T: after a call that returned 0, did   *)
(* nothing or was rejected, V and T hold what they held on entry; every    *)
(* primitive call writes to C or to W.                                     *)
(***************************************************************************)
LarfbLeavesVAndT ==
    (Called /\ ~ub) =>
        /\ mem.V = entry.V
        /\ mem.T = entry.T
        /\ \A i \in 1 .. Len(ops) : OpWrites(ops[i]).base \in {"C", "W"}

\* a call that did write: C and W changed, with a square workspace
LarfbLeavesVAndTWitness ==
    /\ Called /\ ~ub /\ status = "ok"
    /\ CallK = MaxK /\ entry.W.r = entry.W.c
    /\ CallNv > CallK
    /\ mem.C # entry.C /\ mem.W # entry.W
    /\ mem.V = entry.V /\ mem.T = entry.T

(***************************************************************************)
(* The blocked drivers.                                                    *)
(***************************************************************************)
\* a driver returned from a call in which every primitive was used within
\* its contract
DriverReturned ==
    routine \in Drivers /\ pc = "called" /\ status = "ok" /\ ~ub

\* the call of the state, made again on the same inputs with block size nb
DriverRun(nb) ==
    IF routine = "ungqr" THEN ungqr(entry, tau, nb, isComplex)
    ELSE IF routine = "unmlq" THEN unmlq(entry, side, trans, tau, nb, isComplex)
    ELSE unmrq(entry, side, trans, tau, nb, isComplex)

\* C11: the output of ungqr, unmlq and unmrq is the same under every block
\* size: what a driver returned under opts.nb is what it returns on the
\* same inputs under any other block size nb2 >= 1
BlockSizeIndependent ==
    DriverReturned =>
        \A nb2 \in 1 .. MaxNb :
            /\ ~DriverRun(nb2).ub
            /\ Output(DriverRun(nb2).mem) = Output(mem)

\* two reflectors taken one at a time and both at once, on a matrix the
\* driver changes
BlockSizeIndependentWitness ==
    /\ DriverReturned /\ routine = "unmrq" /\ side = "Right" /\ trans = "NoTrans"
    /\ tau.r = 2 /\ nbOpt = 1
    /\ Len(ops) = 4 /\ Len(DriverRun(2).ops) = 2
    /\ Output(mem) # Output(entry)
    /\ Output(DriverRun(2).mem) = Output(mem)

\* the reflector vectors a driver is given, as the columns of a matrix
DriverVc ==
    VVec(DriverDirection(routine), DriverStoreMode(routine), entry.A,
         IF routine = "ungqr" THEN entry.A.r
         ELSE IF side = "Left" THEN entry.C.r ELSE entry.C.c,
         tau.r)

\* the call of ungqr of the state is one the documentation allows:
\* A is m-by-n with k <= n <= m
UngqrAsDocumented ==
    routine = "ungqr" /\ tau.r <= entry.A.c /\ entry.A.c <= entry.A.r

\* C12: ungqr returns 0 and leaves in A the first n columns of
\* Q = H_1 H_2 ... H_k, for every k <= n <= m and every block size
UngqrGeneratesQ ==
    (pc = "called" /\ UngqrAsDocumented) =>
        /\ status = "ok" /\ info = 0
        /\ mem.A = Columns(ProductUp(DriverVc, tau, 0, tau.r), 0, entry.A.c)

\* the call of unmlq or unmrq of the state is one the documentation allows:
\* side and trans name an operation (Trans apart) and A holds k reflectors
\* of the length of the side of C they act on
UnmAsDocumented ==
    /\ side \in {"Left", "Right"} /\ trans \in {"NoTrans", "ConjTrans"}
    /\ tau.r <= (IF side = "Left" THEN entry.C.r ELSE entry.C.c)

DriverM == Output(entry).r
DriverN == Output(entry).c

\* C14: a driver called with more reflectors than min(m, n) reports an
\* error before it computes anything
DriverRejectsLargeK ==
    (routine \in Drivers /\ pc = "called" /\ tau.r > Min(DriverM, DriverN)) =>
        /\ status = "error"
        /\ ops = <<>> /\ Output(mem) = Output(entry)

\* the call of unmlq or unmrq of the state, made again with trans = tr
UnmRun(tr) ==
    IF routine = "unmlq" THEN unmlq(entry, side, tr, tau, nbOpt, isComplex)
    ELSE unmrq(entry, side, tr, tau, nbOpt, isComplex)

\* the call of the state did what the same call with trans = tr does: the
\* same blocks in the same order, the same operation handed to larfb, the
\* same result
SameAsWith(tr) ==
    /\ status # "error"
    /\ ops = UnmRun(tr).ops
    /\ ub = UnmRun(tr).ub
    /\ ~ub => mem.C = UnmRun(tr).mem.C

\* C15: unmlq and unmrq reject trans = Trans with an error when the scalar
\* type of A is complex; when it is real they accept it and treat it
\* exactly as ConjTrans
UnmTransOnlyForReal ==
    (routine \in {"unmlq", "unmrq"} /\ pc = "called"
       /\ side \in {"Left", "Right"} /\ trans = "Trans") =>
        IF isComplex THEN status = "error" ELSE SameAsWith("ConjTrans")


(***************************************************************************)
(* The tiled backend.                                                      *)
(***************************************************************************)
\* the slice asked of the tiled matrix starts on tile boundaries and, in each
\* dimension, covers whole tiles or ends at the boundary of the matrix
TileAligned ==
    LET A == arg.A
        row0 == arg.rows[1]
        row1 == arg.rows[2]
        col0 == arg.cols[1]
        col1 == arg.cols[2]
    IN  /\ row0 % A.mb = 0
        /\ col0 % A.nb = 0
        /\ (row1 - row0) % A.mb = 0 \/ row1 = A.m
        /\ (col1 - col0) % A.nb = 0 \/ col1 = A.n

\* C16: a slice of a tiled matrix is accepted exactly when its first row and
\* first column are multiples of the tile extents and, in each dimension,
\* its extent is a multiple of the tile extent or the slice ends at the
\* boundary of the matrix, whatever the size of the last, ragged tile; every
\* other slice is rejected.
SliceAcceptedIffAligned ==
    (routine = "slice" /\ pc = "called") =>
        /\ res.ok <=> TileAligned
        /\ status = (IF TileAligned THEN "ok" ELSE "error")

\* C17: row(A, i) succeeds for every row i of a tiled matrix A and col(A, j)
\* for every column j.
RowColAvailable ==
    (routine \in {"row", "col"} /\ pc = "called") =>
        /\ res.ok
        /\ status = "ok"


(***************************************************************************)
(* The workspace queries of the drivers.                                   *)
(***************************************************************************)
\* the block size the driver of the state uses
DriverNb == Min(nbOpt, tau.r)

\* what the query of the state's driver returns for an m-by-n problem
WorkQuery(m, n) ==
    IF routine = "ungqr" THEN ungqr_worksize(m, n, tau.r, nbOpt)
    ELSE unmrq_worksize(side, trans, m, n, tau.r, nbOpt)

\* the shape a is no larger than the shape b
Fits(a, b) == a.m <= b.m /\ a.n <= b.n

\* the scratch shape one step o of a driver's trace needs
StepNeeds(o) ==
    IF o[1] = "larfb"
    THEN IF o[2] = "Left" THEN WorkInfo(nrows(o[7]), ncols(o[8]))
         ELSE WorkInfo(nrows(o[8]), nrows(o[7]))
    ELSE IF o[1] = "ung2r" THEN WorkVector(Max(ncols(o[2]) - 1, 0))
    ELSE WorkInfo(0, 0)

\* a scratch matrix of shape q serves step o: it holds what the step needs
\* and, for larfb, the nb-by-nb matrixT in its trailing corner beside it
StepServed(o, q) ==
    /\ Fits(StepNeeds(o), q)
    /\ o[1] = "larfb" =>
        /\ Fits(WorkInfo(DriverNb, DriverNb), q)
        /\ nrows(o[7]) <= DriverNb
        /\ \/ StepNeeds(o).m <= q.m - DriverNb
           \/ StepNeeds(o).n <= q.n - DriverNb

\* C18: ungqr_worksize is, when nb < n, the element-wise maximum of (what
\* larfb needs plus the nb-by-nb block of T) and what ung2r needs, and what
\* ung2r needs when nb >= n; unmrq_worksize is the sum of the nb-by-nb block
\* of T and what larfb needs; and the shape is never smaller than what a
\* step of the driver needs.
WorksizeComposition ==
    (routine \in {"ungqr", "unmrq"} /\ pc = "called") =>
        LET m == DriverM
            n == DriverN
            nb == DriverNb
            q == WorkQuery(m, n)
            g == WorkVector(IF nb > 1 THEN nb - 1 ELSE 0)
        IN  /\ (routine = "ungqr" /\ nb < n) =>
                q = WorkInfo(Max(nb + nb, g.m), Max((n - nb) + nb, g.n))
            /\ (routine = "ungqr" /\ nb >= n) => q = g
            /\ (routine = "unmrq" /\ side = "Left") => q = WorkInfo(nb + nb, nb + n)
            /\ (routine = "unmrq" /\ side = "Right") => q = WorkInfo(nb + m, nb + nb)
            /\ DriverReturned => \A j \in 1 .. Len(ops) : StepServed(ops[j], q)

\* ungqr with two blocks of one column each and a third column: larfb (twice)
\* and ung2r ran, and the query is the larfb shape plus the block of T
WorksizeCompositionWitness ==
    /\ routine = "ungqr" /\ DriverReturned
    /\ DriverM = 3 /\ DriverN = 3 /\ tau.r = 2 /\ nbOpt = 1
    /\ WorkQuery(DriverM, DriverN) = WorkInfo(2, 3)
    /\ \E i, j \in 1 .. Len(ops) :
        /\ ops[i][1] = "larfb" /\ StepNeeds(ops[i]) = WorkInfo(1, 2)
        /\ ops[j][1] = "ung2r"


\* C19: for the same side, trans, k and block size, the workspace shape
\* queried for an m-by-n problem is at least, in both dimensions, the shape
\* queried for every m1-by-n1 problem with m1 <= m and n1 <= n.
WorksizeMonotone ==
    (routine \in {"ungqr", "unmrq"} /\ pc = "called") =>
        \A m1 \in 0 .. DriverM : \A n1 \in 0 .. DriverN :
            Fits(WorkQuery(m1, n1), WorkQuery(DriverM, DriverN))

\* ungqr on three columns with blocks of two: the query for the first two
\* columns alone is the vector of ung2r, smaller in both dimensions
WorksizeMonotoneWitness ==
    /\ routine = "ungqr" /\ pc = "called"
    /\ DriverM = 3 /\ DriverN = 3 /\ tau.r = 2 /\ nbOpt = 2
    /\ WorkQuery(3, 3) = WorkInfo(4, 3)
    /\ WorkQuery(3, 2) = WorkInfo(1, 1)
    /\ Fits(WorkQuery(3, 2), WorkQuery(3, 3))
    /\ ~Fits(WorkQuery(3, 3), WorkQuery(3, 2))


(***************************************************************************)
(* The scalar type traits.                                                 *)
(***************************************************************************)
\* the rank of the common type of the real types of the list
CommonPrec(Types) ==
    CHOOSE p \in 1 .. NumPrec :
        /\ \E i \in 1 .. Len(Types) : Types[i].prec = p
        /\ \A i \in 1 .. Len(Types) : Types[i].prec <= p

\* the lists with the same types in another order
Reordered(Types) ==
    {[i \in 1 .. Len(Types) |-> Types[f[i]]] : f \in Permutations(1 .. Len(Types))}

\* C20: scalar_type of a non-empty list of scalar types is complex exactly
\* when an argument is complex, its real type is the common type of the real
\* types of all arguments, and it is the same for every order of the
\* arguments; real_type of the list is that common real type.
ScalarTypeIsCommon ==
    ((routine \in {"scalar_type", "real_type"}) /\ pc = "called") =>
        LET Types == arg.types
            p == CommonPrec(Types)
            anyComplex == \E i \in 1 .. Len(Types) : Types[i].cplx
        IN  IF routine = "scalar_type"
            THEN /\ res = [cplx |-> anyComplex, prec |-> p, ref |-> FALSE]
                 /\ \A L \in Reordered(Types) : scalar_type(L) = res
            ELSE res = [cplx |-> FALSE, prec |-> p, ref |-> FALSE]

\* scalar_type<double, complex<float>> is complex<double>
ScalarTypeIsCommonWitness ==
    /\ routine = "scalar_type" /\ pc = "called"
    /\ arg.types = <<[cplx |-> FALSE, prec |-> 2, ref |-> FALSE],
                     [cplx |-> TRUE, prec |-> 1, ref |-> FALSE]>>
    /\ res = [cplx |-> TRUE, prec |-> 2, ref |-> FALSE]


(***************************************************************************)
(* The order of the steps.                                                 *)
(***************************************************************************)
\* the kinds of the calls of a trace, in order
Kinds(trace) == [i \in 1 .. Len(trace) |-> trace[i][1]]

\* the calls of a sequence that are made
RECURSIVE Made(_)
Made(calls) ==
    IF calls = <<>> THEN <<>>
    ELSE IF Head(calls)[1] = "skip" THEN Made(Tail(calls))
    ELSE <<Head(calls)>> \o Made(Tail(calls))

\* the calls of the branch of the state's call, were it given the operation tr
BranchCalls(tr) ==
    Made(larfbBranch(side, tr, direction, storeMode,
                     Whole(entry, "V"), Whole(entry, "T"), Whole(entry, "C"),
                     Whole(entry, "W"), CallM, CallN, CallK))

\* the part of C beside the k-wide block is not empty
HasRemainder == IF side = "Left" THEN CallM > CallK ELSE CallN > CallK

\* the k-wide block of C is k-by-n (Left) or m-by-k (Right)
IsBlockOfC(v) ==
    /\ v.base = "C"
    /\ nrows(v) = (IF side = "Left" THEN CallK ELSE CallM)
    /\ ncols(v) = (IF side = "Left" THEN CallN ELSE CallK)

IsBlockOp(o) == o[1] = (IF routine = "ungqr" THEN "ung2r" ELSE "larft")

\* the blocks <<i, ib>> of a trace, in the order they were visited
BlocksOf(trace) ==
    LET marks == SelectSeq(trace, IsBlockOp)
    IN  [j \in 1 .. Len(marks) |->
            IF routine = "ungqr"
            THEN <<marks[j][2].c0, ncols(marks[j][2])>>
            ELSE <<marks[j][4].r0, nrows(marks[j][4])>>]

\* the driver of the state passed its checks and its quick return and went
\* through its block loop
LoopRan ==
    /\ routine \in Drivers /\ pc = "called" /\ status # "error"
    /\ tau.r >= 1 /\ DriverM >= 1 /\ DriverN >= 1

Increasing(trace) ==
    LET B == BlocksOf(trace)
    IN  \A j \in 1 .. Len(B) - 1 : B[j][1] < B[j + 1][1]

\* the starts of the blocks of a trace go down
Decreasing(trace) ==
    LET B == BlocksOf(trace)
    IN  \A j \in 1 .. Len(B) - 1 : B[j][1] > B[j + 1][1]

\* the order the claim gives for the routine, side and trans of the state
GoesUp ==
    IF routine = "unmlq"
    THEN (side = "Left" /\ trans = "NoTrans") \/ (side = "Right" /\ trans # "NoTrans")
    ELSE IF routine = "unmrq"
    THEN (side = "Left" /\ trans # "NoTrans") \/ (side = "Right" /\ trans = "NoTrans")
    ELSE FALSE

\* C26: the order of the blocks depends on (side, trans) only: unmlq goes up
\* exactly when (Left, NoTrans) or (Right, not NoTrans), unmrq exactly when
\* (Left, not NoTrans) or (Right, NoTrans), ungqr always goes down; and
\* unmlq and unmrq hand larfb ConjTrans when trans = NoTrans and NoTrans
\* otherwise.
BlockOrderBySideTrans ==
    LoopRan =>
        /\ IF GoesUp THEN Increasing(ops) ELSE Decreasing(ops)
        /\ routine \in {"unmlq", "unmrq"} =>
            \A j \in 1 .. Len(ops) :
                ops[j][1] = "larfb" =>
                    /\ ops[j][2] = side
                    /\ ops[j][3] = (IF trans = "NoTrans" THEN "ConjTrans" ELSE "NoTrans")

\* unmlq and unmrq on two blocks, from the left without transposition: unmlq
\* went up and unmrq down
BlockOrderBySideTransWitness ==
    /\ LoopRan /\ side = "Left" /\ trans = "NoTrans"
    /\ tau.r = 2 /\ nbOpt = 1 /\ routine = "unmlq"
    /\ BlocksOf(ops) = <<<<0, 1>>, <<1, 1>>>>
    /\ BlocksOf(unmrq(entry, side, trans, tau, nbOpt, isComplex).ops) = <<<<1, 1>>, <<0, 1>>>>
    /\ ops[2][1] = "larfb" /\ ops[2][3] = "ConjTrans"


\* the view a call of a driver's trace writes inside A (larft writes T)
WrittenInA(o) ==
    IF o[1] = "larfb" THEN {o[8]}
    ELSE IF o[1] = "larft" THEN {}
    ELSE {o[2]}

\* C27: each block iteration of ungqr runs larft, larfb, ung2r and the
\* zeroing of rows 0..i-1, in this order; larft and larfb run exactly when
\* i + ib < n, on the reflectors of the block as they were on entry: no
\* earlier call wrote the columns of the block.
UngqrStepOrder ==
    (LoopRan /\ routine = "ungqr") =>
        LET m == DriverM
            n == DriverN
            A == Whole(entry, "A")
            blocks == {j \in 1 .. Len(ops) : ops[j][1] = "ung2r"}
        IN  /\ \A j \in 1 .. Len(ops) :
                ops[j][1] \in {"init", "larft", "larfb", "ung2r", "zero"}
            /\ \A j \in blocks :
                LET Ai == ops[j][2]
                    i == Ai.c0
                    ib == ncols(Ai)
                IN  /\ Ai = slice(A, i, m, i, i + ib)
                    /\ IF i + ib < n
                       THEN /\ j >= 3
                            /\ ops[j - 2][1] = "larft" /\ ops[j - 2][4] = Ai
                            /\ ops[j - 1][1] = "larfb" /\ ops[j - 1][6] = Ai
                            /\ ops[j - 1][7] = ops[j - 2][5]
                            /\ ops[j - 1][8] = slice(A, i, m, i + ib, n)
                            /\ \A e \in 1 .. j - 3 : \A w \in WrittenInA(ops[e]) :
                                   w.c0 >= i + ib \/ w.c1 <= i
                       ELSE j = 1 \/ ops[j - 1][1] \notin {"larft", "larfb"}
                    /\ IF i > 0
                       THEN /\ j < Len(ops)
                            /\ ops[j + 1] = <<"zero", slice(A, 0, i, i, i + ib)>>
                       ELSE j = Len(ops) \/ ops[j + 1][1] # "zero"
            /\ \A j \in 1 .. Len(ops) :
                /\ ops[j][1] = "larft" => (j + 2) \in blocks
                /\ ops[j][1] = "larfb" => (j + 1) \in blocks
                /\ ops[j][1] = "zero" => (j - 1) \in blocks

\* two blocks of one column in a 3-by-3 matrix: both have trailing columns,
\* the first one visited (i = 1) zeroes row 0 of its column
UngqrStepOrderWitness ==
    /\ LoopRan /\ routine = "ungqr" /\ ~ub
    /\ DriverM = 3 /\ DriverN = 3 /\ tau.r = 2 /\ nbOpt = 1
    /\ Kinds(ops) = <<"init", "larft", "larfb", "ung2r", "zero", "larft", "larfb", "ung2r">>


\* C28: a driver called with k = 0 reflectors ends without a division by
\* zero or an access out of range and returns 0; ungqr then leaves identity
\* columns in A (for n >= 1), unmlq and unmrq leave C as it was.
ZeroReflectorsSafe ==
    (/\ routine \in Drivers /\ pc = "called" /\ tau.r = 0 /\ DriverN >= 1
     /\ routine # "ungqr" => UnmAsDocumented) =>
        /\ ~ub
        /\ status = "ok"
        /\ info = 0
        /\ IF routine = "ungqr"
           THEN \A i \in 0 .. DriverM - 1 : \A j \in 0 .. Min(DriverM, DriverN) - 1 :
                    At(mem.A, i, j) = (IF i = j THEN One ELSE Zero)
           ELSE mem.C = entry.C


\* the views of a larft or larfb call of a driver's trace: V, T and, for
\* larfb, C
BlockViews(o) ==
    IF o[1] = "larfb" THEN [V |-> o[6], T |-> o[7], C |-> o[8]]
    ELSE [V |-> o[4], T |-> o[5], C |-> o[4]]

\* C30: in every block iteration of ungqr, unmlq and unmrq, for every
\* accepted input, the views handed to larft and larfb lie inside the
\* matrices they are sliced from, T is ib-by-ib inside the nb-by-nb region
\* of the workspace, the long dimension of V is the extent of the slice of
\* C on the side the reflectors are applied to, and ib is at most that
\* extent.
BlockViewsInRange ==
    (routine \in Drivers /\ pc = "called" /\ status # "error") =>
        \A j \in 1 .. Len(ops) :
            ops[j][1] \in {"larft", "larfb"} =>
                LET v == BlockViews(ops[j])
                    rowwise == routine # "ungqr"
                    ib == IF rowwise THEN nrows(v.V) ELSE ncols(v.V)
                    long == IF rowwise THEN ncols(v.V) ELSE nrows(v.V)
                IN  /\ v.V.ok /\ v.T.ok /\ v.C.ok
                    /\ v.V.r0 <= v.V.r1 /\ v.V.c0 <= v.V.c1
                    /\ v.C.r0 <= v.C.r1 /\ v.C.c0 <= v.C.c1
                    /\ nrows(v.T) = ib /\ ncols(v.T) = ib
                    /\ v.T.r1 <= DriverNb /\ v.T.c1 <= DriverNb
                    /\ 1 <= ib /\ ib <= long
                    /\ ops[j][1] = "larfb" =>
                        long = (IF ops[j][2] = "Left" THEN nrows(v.C) ELSE ncols(v.C))


\* the least number of tiles of extent b that hold len elements
CeilDiv(len, b) == (len + b - 1) \div b

\* C29: an accepted slice of a tiled matrix is answered with the tiles that
\* hold exactly the elements asked for: from tile (row0 / mb, col0 / nb),
\* ceil(rows / mb) tile rows and ceil(cols / nb) tile columns, no tile for
\* an empty range; and an empty slice at the origin is accepted.
TilesCoverSlice ==
    (routine = "slice" /\ pc = "called") =>
        LET A == arg.A
            nr == arg.rows[2] - arg.rows[1]
            nc == arg.cols[2] - arg.cols[1]
        IN  /\ res.ok =>
                res.tiles = <<arg.rows[1] \div A.mb, arg.cols[1] \div A.nb,
                              CeilDiv(nr, A.mb), CeilDiv(nc, A.nb)>>
            /\ (arg.rows = <<0, 0>> /\ arg.cols = <<0, 0>>) => res.ok


(***************************************************************************)
(* rscl                                                                    *)
(***************************************************************************)
RsclReturned(cplx) == routine = "rscl" /\ pc = "called" /\ arg.cplx = cplx

FOne == FPow(1, 0)

\* the vector x after the scalings of a trace, made one after the other
RECURSIVE ScaledBy(_, _)
ScaledBy(x, trace) ==
    IF trace = <<>> THEN x
    ELSE ScaledBy([i \in 1 .. Len(x) |->
                      IF Head(trace)[2] = "real"
                      THEN <<FMul(Head(trace)[3], x[i][1]), FMul(Head(trace)[3], x[i][2])>>
                      ELSE CFMul(Head(trace)[3], x[i])],
                  Tail(trace))

\* the three ways of scaling by a real divisor d: which one its size selects
RealPath(d) ==
    IF FGreater(FAbs(d), safe_max) THEN "down"
    ELSE IF FGreater(safe_min, FAbs(d)) THEN "up"
    ELSE "direct"

\* C21: for a real alpha, rscl(alpha, x) scales x by safe_min and then by
\* safe_max / alpha when |alpha| > safe_max, by safe_max and then by
\* safe_min / alpha when |alpha| < safe_min, and once by 1 / alpha
\* otherwise; the pre-scaling is the first scaling and there are at most two.
RsclRealPaths ==
    RsclReturned(FALSE) =>
        LET alpha == arg.alpha
            r == FAbs(alpha)
        IN  /\ ~(FGreater(r, safe_max) /\ FGreater(safe_min, r))
            /\ FGreater(r, safe_max) =>
                   res.ops = <<<<"scal", "real", safe_min>>,
                               <<"scal", "real", FDiv(safe_max, alpha)>>>>
            /\ FGreater(safe_min, r) =>
                   res.ops = <<<<"scal", "real", safe_max>>,
                               <<"scal", "real", FDiv(safe_min, alpha)>>>>
            /\ (~FGreater(r, safe_max) /\ ~FGreater(safe_min, r)) =>
                   res.ops = <<<<"scal", "real", FDiv(FOne, alpha)>>>>
            /\ Len(res.ops) <= 2
            /\ res.x = ScaledBy(arg.x, res.ops)

RsclRealPathsWitness ==
    /\ RsclReturned(FALSE)
    /\ arg.alpha = FPow(-1, SafeExp + 1)
    /\ Len(arg.x) = 2
    /\ res.ops = <<<<"scal", "real", safe_min>>, <<"scal", "real", FPow(-1, -1)>>>>
    /\ res.x[1] = <<FPow(-1, -SafeExp), FPow(1, -SafeExp - 2)>>


\* the case a complex alpha falls into, the cases taken in their order
ComplexCase(alpha) ==
    IF alpha[2] = FZero THEN "real"
    ELSE IF alpha[1] = FZero THEN "imaginary"
    ELSE IF FGreater(FAbs(alpha[1]), safe_max) \/ FGreater(FAbs(alpha[2]), safe_max)
    THEN "large"
    ELSE "general"

\* |Re + Im * (Im / Re)| and |Im + Re * (Re / Im)|
QuantityA(alpha) == FAbs(FAdd(alpha[1], FMul(alpha[2], FDiv(alpha[2], alpha[1]))))
QuantityB(alpha) == FAbs(FAdd(alpha[2], FMul(alpha[1], FDiv(alpha[1], alpha[2]))))

\* the scalings of the three ways, for a complex divisor
ComplexScalings(path, alpha) ==
    IF path = "down"
    THEN <<<<"scal", "real", safe_min>>,
           <<"scal", "complex", CFDiv(<<safe_max, FZero>>, alpha)>>>>
    ELSE IF path = "up"
    THEN <<<<"scal", "real", safe_max>>,
           <<"scal", "complex", CFDiv(<<safe_min, FZero>>, alpha)>>>>
    ELSE <<<<"scal", "complex", CFDiv(<<FOne, FZero>>, alpha)>>>>

GeruReturned == routine = "geru" /\ pc = "called" /\ status = "ok"

\* the i-th element of a vector of len elements held with the stride inc:
\* the elements lie |inc| apart, in reverse order when inc < 0
Logical(x, len, inc, i) ==
    x[IF inc > 0 THEN i * inc ELSE (len - 1 - i) * Abs(inc)]

\* where the array holds A(i, j)
Place(layout, lda, i, j) == IF layout = "ColMajor" THEN i + j * lda ELSE j + i * lda

GeruQuick == arg.m = 0 \/ arg.n = 0 \/ arg.alpha = <<0, 0>>

\* C23: geru adds alpha x_i y_j to A(i, j) for 0 <= i < m, 0 <= j < n and
\* changes nothing else of the array, x_i and y_j being the logical elements
\* (a negative stride starts at (len - 1) |inc|, computed in the wrapping
\* arithmetic of size_t); a row-major call makes one further call, with the
\* layout column-major and the dimensions and x, y exchanged; and with m = 0,
\* n = 0 or alpha = 0 the array is left as it was.
GeruRankOneUpdate ==
    GeruReturned =>
        /\ ~res.ub
        /\ DOMAIN res.A = DOMAIN arg.A
        /\ \A p \in DOMAIN arg.A :
               \/ /\ res.A[p] = arg.A[p]
                  /\ \A i \in 0 .. arg.m - 1 : \A j \in 0 .. arg.n - 1 :
                         Place(arg.layout, arg.lda, i, j) = p => GeruQuick
               \/ \E i \in 0 .. arg.m - 1 : \E j \in 0 .. arg.n - 1 :
                      /\ Place(arg.layout, arg.lda, i, j) = p
                      /\ res.A[p] =
                             CAdd(arg.A[p],
                                  CMul(arg.alpha,
                                       CMul(Logical(arg.x, arg.m, arg.incx, i),
                                            Logical(arg.y, arg.n, arg.incy, j))))
        /\ (arg.m >= 1 /\ arg.incx < 0) =>
               geruStart(arg.m, arg.incx) = (arg.m - 1) * Abs(arg.incx)
        /\ (arg.n >= 1 /\ arg.incy < 0) =>
               geruStart(arg.n, arg.incy) = (arg.n - 1) * Abs(arg.incy)
        /\ res.calls =
               IF arg.layout = "RowMajor" /\ ~GeruQuick
               THEN <<<<"RowMajor", arg.m, arg.n, arg.incx, arg.incy>>,
                      <<"ColMajor", arg.n, arg.m, arg.incy, arg.incx>>>>
               ELSE <<<<arg.layout, arg.m, arg.n, arg.incx, arg.incy>>>>
        /\ GeruQuick => res.A = arg.A

GeruRankOneUpdateWitness ==
    /\ GeruReturned
    /\ arg.layout = "RowMajor"
    /\ arg.m = 2 /\ arg.n = 2 /\ arg.lda = 3
    /\ arg.incx = -2 /\ arg.incy = -1
    /\ arg.alpha = <<2, -1>>
    /\ Len(res.calls) = 2
    /\ res.A[1] = CAdd(arg.A[1], CMul(arg.alpha, CMul(arg.x[2], arg.y[0])))
    /\ res.A[2] = arg.A[2]
    /\ res.A[3] # arg.A[3]

=============================================================================
